---- MODULE Spec2Model ----
(***************************************************************************)
(* Tolerant JSON decoding of the NHN Cloud routing-table client:           *)
(* flexible references (bare id or {id, name}), the routing-table record   *)
(* extractor with its strict-then-permissive fallback, and the nested      *)
(* reference and route lists.                                              *)
(*                                                                         *)
(* JSON values are records tagged by kind.  A JSON string is a sequence of *)
(* tokens (<<>> is the empty string); an error is a sequence of message    *)
(* parts (<<>> is the nil error).                                          *)
(***************************************************************************)
EXTENDS Integers, Sequences, FiniteSets, TLC

VARIABLES
    fvi,    \* the FlexibleVPCInfo receiver
    fsi,    \* the FlexibleSubnetInfo receiver
    data,   \* the payload handed to the last UnmarshalJSON
    recv,   \* the receiver's value before the last UnmarshalJSON
    derr,   \* the error the last UnmarshalJSON returned
    out,    \* the JSON MarshalJSON emitted for the value of the last decode
    op,     \* the operation that produced the current state
    body,   \* r.Body of the RoutingTableResult
    rerr,   \* r.Err of the RoutingTableResult
    rt,     \* the *RoutingTable the last extraction returned
    xerr,   \* the error the last extraction returned
    ctime,  \* the NHNCloudTime receiver
    tables, \* the []RoutingTable the last ExtractRoutingTables returned
    empty,  \* what the last IsEmpty returned
    url,    \* what the last NextPageURL returned
    route,  \* the *Route the last route extraction returned
    req,    \* the request operation being invoked and whether its options build a body
    pc,     \* where the invocation stands
    calls,  \* the HTTP calls the invocation has issued
    codeErr,    \* the err handed to the last ResponseCodeIs
    status,     \* the status handed to the last ResponseCodeIs
    codeIs,     \* what the last ResponseCodeIs returned
    strings,    \* the []string the last accessor of a routing table returned
    gw,     \* the InternetGateway receiver
    gws     \* the []InternetGateway the last ExtractInternetGateways returned

refVars == <<fvi, fsi, data, recv, derr, out>>
rtVars == <<body, rerr, rt, xerr>>
pageVars == <<tables, empty, url>>
routeVars == <<route>>
reqVars == <<req, pc, calls>>
codeVars == <<codeErr, status, codeIs>>
accVars == <<strings>>
gwVars == <<gw, gws>>
auxVars == <<ctime, pageVars, routeVars, reqVars, codeVars, accVars, gwVars>>
vars == <<fvi, fsi, data, recv, derr, out, op, body, rerr, rt, xerr, ctime,
          tables, empty, url, route, req, pc, calls, codeErr, status, codeIs,
          strings, gw, gws>>

----------------------------------------------------------------------------
(* Bounds *)

MaxIds == 2         \* distinct non-empty identifiers in the payloads
MaxListLen == 2     \* elements of a nested list in a payload
MaxMalformed == 1   \* members of a record payload that deviate from the well-formed one
MaxWrap == 2        \* levels of wrapping and joining in an error

----------------------------------------------------------------------------
(* JSON values *)

JNull == [k |-> "null"]
JBool(b) == [k |-> "bool", v |-> b]
JNum(n, f) == [k |-> "num", v |-> n, frac |-> f]
JStr(s) == [k |-> "str", v |-> s]
JArr(a) == [k |-> "arr", v |-> a]
JObj(o) == [k |-> "obj", v |-> o]

Has(o, key) == key \in DOMAIN o
Drop(o, key) == [f \in DOMAIN o \ {key} |-> o[f]]
With(o, key, val) == [f \in DOMAIN o \cup {key} |-> IF f = key THEN val ELSE o[f]]
EmptyObject == [f \in {} |-> JNull]

Nil == <<>>
EmptyString == <<>>
UnmarshalTypeError(kind, goType) == <<"json: cannot unmarshal", kind, "into Go value of type", goType>>

----------------------------------------------------------------------------
(* encoding/json into the Go types the records use *)

\* json.Unmarshal into a string: null leaves the target alone
UnmarshalString(cur, j) ==
    IF j.k = "str" THEN [val |-> j.v, err |-> Nil]
    ELSE IF j.k = "null" THEN [val |-> cur, err |-> Nil]
    ELSE [val |-> cur, err |-> UnmarshalTypeError(j.k, "string")]

\* json.Unmarshal into a bool
UnmarshalBool(cur, j) ==
    IF j.k = "bool" THEN [val |-> j.v, err |-> Nil]
    ELSE IF j.k = "null" THEN [val |-> cur, err |-> Nil]
    ELSE [val |-> cur, err |-> UnmarshalTypeError(j.k, "bool")]

\* the first error of two, as the decoder saves it
FirstErr(e1, e2) == IF e1 # Nil THEN e1 ELSE e2

----------------------------------------------------------------------------
(* Flexible references *)

ZeroRef == [ID |-> EmptyString, Name |-> EmptyString]

\* mutant: a payload that is not an object is accepted and ignored
UnmarshalRefAlias_Lenient(cur, j) ==
    IF j.k = "obj" THEN
        LET id == IF Has(j.v, "id") THEN UnmarshalString(cur.ID, j.v.id)
                  ELSE [val |-> cur.ID, err |-> Nil]
            name == IF Has(j.v, "name") THEN UnmarshalString(cur.Name, j.v.name)
                    ELSE [val |-> cur.Name, err |-> Nil]
        IN [ref |-> [ID |-> id.val, Name |-> name.val], err |-> FirstErr(id.err, name.err)]
    ELSE [ref |-> cur, err |-> Nil]

\* json.Unmarshal(data, aux) into the alias struct {ID `json:"id"`, Name `json:"name"`}:
\* a field of the wrong type is reported and skipped, the others are still stored
UnmarshalRefAlias(cur, j) ==
    IF j.k = "obj" THEN
        LET id == IF Has(j.v, "id") THEN UnmarshalString(cur.ID, j.v.id)
                  ELSE [val |-> cur.ID, err |-> Nil]
            name == IF Has(j.v, "name") THEN UnmarshalString(cur.Name, j.v.name)
                    ELSE [val |-> cur.Name, err |-> Nil]
        IN [ref |-> [ID |-> id.val, Name |-> name.val], err |-> FirstErr(id.err, name.err)]
    ELSE IF j.k = "null" THEN [ref |-> cur, err |-> Nil]
    ELSE [ref |-> cur, err |-> UnmarshalTypeError(j.k, "struct")]

\* json.Marshal of the alias struct: both fields are omitempty
MarshalRefAlias(ref) ==
    LET o1 == IF ref.ID # EmptyString THEN With(EmptyObject, "id", JStr(ref.ID)) ELSE EmptyObject
        o2 == IF ref.Name # EmptyString THEN With(o1, "name", JStr(ref.Name)) ELSE o1
    IN JObj(o2)

\* mutant: the string form leaves the receiver's name in place
FlexibleVPCInfo_UnmarshalJSON_KeepName(cur, j) ==
    LET idStr == UnmarshalString(EmptyString, j) IN
    IF idStr.err = Nil
    THEN [ref |-> [ID |-> idStr.val, Name |-> cur.Name], err |-> Nil]
    ELSE UnmarshalRefAlias(cur, j)

FlexibleVPCInfo_UnmarshalJSON(cur, j) ==
    LET idStr == UnmarshalString(EmptyString, j) IN
    IF idStr.err = Nil
    THEN [ref |-> [ID |-> idStr.val, Name |-> EmptyString], err |-> Nil]
    ELSE UnmarshalRefAlias(cur, j)

\* mutant: the string form is chosen on the name alone
FlexibleVPCInfo_MarshalJSON_NameOnly(ref) ==
    IF ref.Name = EmptyString
    THEN JStr(ref.ID)
    ELSE MarshalRefAlias(ref)

FlexibleVPCInfo_MarshalJSON(ref) ==
    IF ref.Name = EmptyString /\ ref.ID # EmptyString
    THEN JStr(ref.ID)
    ELSE MarshalRefAlias(ref)

\* mutant: the string form also fills the name
FlexibleSubnetInfo_UnmarshalJSON_NameFromID(cur, j) ==
    LET idStr == UnmarshalString(EmptyString, j) IN
    IF idStr.err = Nil
    THEN [ref |-> [ID |-> idStr.val, Name |-> idStr.val], err |-> Nil]
    ELSE UnmarshalRefAlias(cur, j)

FlexibleSubnetInfo_UnmarshalJSON(cur, j) ==
    LET idStr == UnmarshalString(EmptyString, j) IN
    IF idStr.err = Nil
    THEN [ref |-> [ID |-> idStr.val, Name |-> EmptyString], err |-> Nil]
    ELSE UnmarshalRefAlias(cur, j)

\* mutant: the object form is emitted always
FlexibleSubnetInfo_MarshalJSON_AlwaysObject(ref) == MarshalRefAlias(ref)

\* mutant: the string form is chosen on the id alone
FlexibleSubnetInfo_MarshalJSON_IDOnly(ref) ==
    IF ref.ID # EmptyString
    THEN JStr(ref.ID)
    ELSE MarshalRefAlias(ref)

FlexibleSubnetInfo_MarshalJSON(ref) ==
    IF ref.Name = EmptyString /\ ref.ID # EmptyString
    THEN JStr(ref.ID)
    ELSE MarshalRefAlias(ref)

----------------------------------------------------------------------------
(* Timestamps.  A timestamp string is the token sequence                   *)
(* <<date, separator, clock>> followed by an optional fraction token and   *)
(* an optional zone token; a Time is the wall clock it denotes (day number *)
(* and second of the day) with nanoseconds and the zone offset in seconds. *)

DateTokens == {"0001-01-01", "2024-02-13"}
ClockTokens == {"00:00:00", "01:45:57", "10:45:57"}
FracTokens == {".123456", ".5"}
ZoneTokens == {"Z", "+09:00"}

DayOf(d) == IF d = "0001-01-01" THEN 0 ELSE 738928
SecondOf(c) == CASE c = "00:00:00" -> 0 [] c = "01:45:57" -> 6357 [] OTHER -> 38757
FracDigits(f) == IF f = ".123456" THEN 6 ELSE 1
NsecOf(f) == IF f = ".123456" THEN 123456000 ELSE 500000000
OffsetOf(z) == IF z = "+09:00" THEN 32400 ELSE 0

ZeroTime == [day |-> 0, sec |-> 0, nsec |-> 0, off |-> 0]

\* the layouts of the formats list, in its order
formats == <<
    [name |-> "2006-01-02 15:04:05",         sep |-> " ", frac |-> FALSE, zone |-> "none"],
    [name |-> "2006-01-02T15:04:05",         sep |-> "T", frac |-> FALSE, zone |-> "none"],
    [name |-> "2006-01-02T15:04:05Z",        sep |-> "T", frac |-> FALSE, zone |-> "Z"],
    [name |-> "2006-01-02T15:04:05Z07:00",   sep |-> "T", frac |-> FALSE, zone |-> "Z07:00"],
    [name |-> "2006-01-02 15:04:05.000000",  sep |-> " ", frac |-> TRUE,  zone |-> "none"],
    [name |-> "2006-01-02T15:04:05.000000Z", sep |-> "T", frac |-> TRUE,  zone |-> "Z"] >>

ParseError(layout, s) == <<"parsing time">> \o s \o <<"as", layout.name>>

\* time.Parse(layout, s).  After the seconds, time.Parse accepts a fraction of
\* any length when the layout has none; a layout with .000000 wants exactly six
\* digits.  A trailing Z in a layout is a literal; Z07:00 takes Z or an offset.
time_Parse(layout, s) ==
    IF \/ Len(s) < 3
       \/ s[1] \notin DateTokens
       \/ s[2] # layout.sep
       \/ s[3] \notin ClockTokens
    THEN [t |-> ZeroTime, err |-> ParseError(layout, s)]
    ELSE
        LET afterClock == SubSeq(s, 4, Len(s))
            hasFrac == afterClock # <<>> /\ afterClock[1] \in FracTokens
            fracOK == layout.frac => (hasFrac /\ FracDigits(afterClock[1]) = 6)
            nsec == IF hasFrac THEN NsecOf(afterClock[1]) ELSE 0
            afterFrac == IF hasFrac THEN Tail(afterClock) ELSE afterClock
            zoneOK == CASE layout.zone = "none" -> afterFrac = <<>>
                        [] layout.zone = "Z" -> afterFrac = <<"Z">>
                        [] OTHER -> Len(afterFrac) = 1 /\ afterFrac[1] \in ZoneTokens
            off == IF layout.zone = "Z07:00" /\ zoneOK THEN OffsetOf(afterFrac[1]) ELSE 0
        IN IF fracOK /\ zoneOK
           THEN [t |-> [day |-> DayOf(s[1]), sec |-> SecondOf(s[3]), nsec |-> nsec, off |-> off],
                 err |-> Nil]
           ELSE [t |-> ZeroTime, err |-> ParseError(layout, s)]

\* the text of a JSON value with the surrounding quotes trimmed
TrimQuotes(j) == IF j.k = "str" THEN j.v ELSE <<j.k>>

RECURSIVE TryFormats_FirstError(_, _, _)
\* mutant: the error reported is that of the first layout tried
TryFormats_FirstError(s, i, parseErr) ==
    IF i > Len(formats)
    THEN [t |-> ZeroTime, ok |-> FALSE,
          err |-> <<"unable to parse time">> \o s \o <<"with any known format:">> \o parseErr]
    ELSE LET r == time_Parse(formats[i], s) IN
         IF r.err = Nil THEN [t |-> r.t, ok |-> TRUE, err |-> Nil]
         ELSE TryFormats_FirstError(s, i + 1, IF parseErr = Nil THEN r.err ELSE parseErr)

RECURSIVE TryFormats(_, _, _)
\* the loop over formats: the first layout that parses returns
TryFormats(s, i, parseErr) ==
    IF i > Len(formats)
    THEN [t |-> ZeroTime, ok |-> FALSE,
          err |-> <<"unable to parse time">> \o s \o <<"with any known format:">> \o parseErr]
    ELSE LET r == time_Parse(formats[i], s) IN
         IF r.err = Nil THEN [t |-> r.t, ok |-> TRUE, err |-> Nil]
         ELSE TryFormats(s, i + 1, r.err)

\* mutant: null and the empty string reset the receiver to the zero time
NHNCloudTime_UnmarshalJSON_ResetOnNull(cur, j) ==
    LET s == TrimQuotes(j) IN
    IF s = <<"null">> \/ s = EmptyString
    THEN [val |-> ZeroTime, err |-> Nil]
    ELSE LET r == TryFormats(s, 1, Nil) IN
         IF r.ok THEN [val |-> r.t, err |-> Nil] ELSE [val |-> cur, err |-> r.err]

NHNCloudTime_UnmarshalJSON(cur, j) ==
    LET s == TrimQuotes(j) IN
    IF s = <<"null">> \/ s = EmptyString
    THEN [val |-> cur, err |-> Nil]
    ELSE LET r == TryFormats(s, 1, Nil) IN
         IF r.ok THEN [val |-> r.t, err |-> Nil] ELSE [val |-> cur, err |-> r.err]

\* t.IsZero(): the instant is January 1, year 1, 00:00:00 UTC
\* (day 0 at second 0 of UTC, and the wall clock is off seconds ahead of UTC)
IsZero(t) == t.day = 0 /\ t.sec - t.off = 0 /\ t.nsec = 0

DateOf(day) == IF day = 0 THEN "0001-01-01" ELSE "2024-02-13"
ClockOf(sec) == CASE sec = 0 -> "00:00:00" [] sec = 6357 -> "01:45:57" [] OTHER -> "10:45:57"

\* t.Format("2006-01-02 15:04:05"): the wall clock in the location the time carries;
\* the layout has no fraction and no zone, so both are left out
time_Format(t) == <<DateOf(t.day), " ", ClockOf(t.sec)>>

\* mutant: the zero time is formatted like any other
NHNCloudTime_MarshalJSON_NoNull(t) == JStr(time_Format(t))

NHNCloudTime_MarshalJSON(t) ==
    IF IsZero(t) THEN JNull ELSE JStr(time_Format(t))

----------------------------------------------------------------------------
(* Records.  A slice is nil or a sequence; a pointer is nil or a value.    *)

NilSlice == [nil |-> TRUE, e |-> <<>>]
MakeSlice(seq) == [nil |-> FALSE, e |-> seq]
append(slice, x) == [nil |-> FALSE, e |-> Append(slice.e, x)]

NilString == [nil |-> TRUE, val |-> EmptyString]
AddressOf(str) == [nil |-> FALSE, val |-> str]

ZeroRoute ==
    [ID |-> EmptyString, CIDR |-> EmptyString, Mask |-> 0, Gateway |-> EmptyString,
     GatewayID |-> EmptyString, Description |-> NilString, RoutingTableID |-> EmptyString,
     TenantID |-> EmptyString, Hidden |-> FALSE]

ZeroRoutingTable ==
    [ID |-> EmptyString, Name |-> EmptyString, DefaultTable |-> FALSE, Distributed |-> FALSE,
     GatewayID |-> EmptyString, GatewayName |-> EmptyString, TenantID |-> EmptyString,
     State |-> EmptyString, CreateTime |-> ZeroTime,
     VPCs |-> NilSlice, Subnets |-> NilSlice, Routes |-> NilSlice]

\* the zero InternetGateway; CreateTime is a time.Time
ZeroInternetGateway ==
    [ID |-> EmptyString, Name |-> EmptyString, ExternalNetworkID |-> EmptyString,
     RoutingTableID |-> NilString, State |-> EmptyString, CreateTime |-> ZeroTime,
     TenantID |-> EmptyString, MigrateStatus |-> EmptyString, MigrateError |-> NilString]

NilRoutingTable == [nil |-> TRUE, val |-> ZeroRoutingTable]
NilRoute == [nil |-> TRUE, val |-> ZeroRoute]
PointerTo(record) == [nil |-> FALSE, val |-> record]

----------------------------------------------------------------------------
(* The strict decode: json.Unmarshal into the tagged structs.  A member    *)
(* that is absent or null leaves the field alone; a member of the wrong    *)
(* type makes the decode return an error.                                  *)

\* json.Unmarshal into an int: a number with a fraction is rejected
UnmarshalInt(cur, j) ==
    IF j.k = "num" /\ ~j.frac THEN [val |-> j.v, err |-> Nil]
    ELSE IF j.k = "null" THEN [val |-> cur, err |-> Nil]
    ELSE [val |-> cur, err |-> UnmarshalTypeError(j.k, "int")]

\* json.Unmarshal into a *string
UnmarshalStringPtr(cur, j) ==
    IF j.k = "str" THEN [val |-> AddressOf(j.v), err |-> Nil]
    ELSE IF j.k = "null" THEN [val |-> NilString, err |-> Nil]
    ELSE [val |-> cur, err |-> UnmarshalTypeError(j.k, "string")]

\* the member of an object decoded with Unmarshal(_, _), the field kept when absent
Member(Unmarshal(_, _), cur, o, key) ==
    IF Has(o, key) THEN Unmarshal(cur, o[key]) ELSE [val |-> cur, err |-> Nil]

\* the first error in a sequence of decode results
RECURSIVE FirstError(_)
FirstError(results) ==
    IF results = <<>> THEN Nil
    ELSE IF Head(results).err # Nil THEN Head(results).err
    ELSE FirstError(Tail(results))

\* json.Unmarshal into a Route
UnmarshalRoute(cur, j) ==
    IF j.k = "obj" THEN
        LET o == j.v
            id == Member(UnmarshalString, cur.ID, o, "id")
            cidr == Member(UnmarshalString, cur.CIDR, o, "cidr")
            mask == Member(UnmarshalInt, cur.Mask, o, "mask")
            gateway == Member(UnmarshalString, cur.Gateway, o, "gateway")
            gatewayID == Member(UnmarshalString, cur.GatewayID, o, "gateway_id")
            description == Member(UnmarshalStringPtr, cur.Description, o, "description")
            routingtableID == Member(UnmarshalString, cur.RoutingTableID, o, "routingtable_id")
            tenantID == Member(UnmarshalString, cur.TenantID, o, "tenant_id")
            hidden == Member(UnmarshalBool, cur.Hidden, o, "hidden")
        IN [val |-> [ID |-> id.val, CIDR |-> cidr.val, Mask |-> mask.val,
                     Gateway |-> gateway.val, GatewayID |-> gatewayID.val,
                     Description |-> description.val,
                     RoutingTableID |-> routingtableID.val,
                     TenantID |-> tenantID.val, Hidden |-> hidden.val],
            err |-> FirstError(<<id, cidr, mask, gateway, gatewayID, description,
                                 routingtableID, tenantID, hidden>>)]
    ELSE IF j.k = "null" THEN [val |-> cur, err |-> Nil]
    ELSE [val |-> cur, err |-> UnmarshalTypeError(j.k, "routingtables.Route")]

\* json.Unmarshal into a []FlexibleVPCInfo: every element goes through UnmarshalJSON
UnmarshalVPCs(cur, j) ==
    IF j.k = "arr" THEN
        LET elems == [i \in 1..Len(j.v) |-> FlexibleVPCInfo_UnmarshalJSON(ZeroRef, j.v[i])]
        IN [val |-> MakeSlice([i \in 1..Len(j.v) |-> elems[i].ref]), err |-> FirstError(elems)]
    ELSE IF j.k = "null" THEN [val |-> NilSlice, err |-> Nil]
    ELSE [val |-> cur, err |-> UnmarshalTypeError(j.k, "[]routingtables.FlexibleVPCInfo")]

\* json.Unmarshal into a []FlexibleSubnetInfo
UnmarshalSubnets(cur, j) ==
    IF j.k = "arr" THEN
        LET elems == [i \in 1..Len(j.v) |-> FlexibleSubnetInfo_UnmarshalJSON(ZeroRef, j.v[i])]
        IN [val |-> MakeSlice([i \in 1..Len(j.v) |-> elems[i].ref]), err |-> FirstError(elems)]
    ELSE IF j.k = "null" THEN [val |-> NilSlice, err |-> Nil]
    ELSE [val |-> cur, err |-> UnmarshalTypeError(j.k, "[]routingtables.FlexibleSubnetInfo")]

\* json.Unmarshal into a []Route
UnmarshalRoutes(cur, j) ==
    IF j.k = "arr" THEN
        LET elems == [i \in 1..Len(j.v) |-> UnmarshalRoute(ZeroRoute, j.v[i])]
        IN [val |-> MakeSlice([i \in 1..Len(j.v) |-> elems[i].val]), err |-> FirstError(elems)]
    ELSE IF j.k = "null" THEN [val |-> NilSlice, err |-> Nil]
    ELSE [val |-> cur, err |-> UnmarshalTypeError(j.k, "[]routingtables.Route")]

\* json.Unmarshal into a RoutingTable
UnmarshalRoutingTable(cur, j) ==
    IF j.k = "obj" THEN
        LET o == j.v
            id == Member(UnmarshalString, cur.ID, o, "id")
            name == Member(UnmarshalString, cur.Name, o, "name")
            defaultTable == Member(UnmarshalBool, cur.DefaultTable, o, "default_table")
            distributed == Member(UnmarshalBool, cur.Distributed, o, "distributed")
            gatewayID == Member(UnmarshalString, cur.GatewayID, o, "gateway_id")
            gatewayName == Member(UnmarshalString, cur.GatewayName, o, "gateway_name")
            tenantID == Member(UnmarshalString, cur.TenantID, o, "tenant_id")
            state == Member(UnmarshalString, cur.State, o, "state")
            createTime == Member(NHNCloudTime_UnmarshalJSON, cur.CreateTime, o, "create_time")
            vpcs == Member(UnmarshalVPCs, cur.VPCs, o, "vpcs")
            subnets == Member(UnmarshalSubnets, cur.Subnets, o, "subnets")
            routes == Member(UnmarshalRoutes, cur.Routes, o, "routes")
        IN [val |-> [ID |-> id.val, Name |-> name.val, DefaultTable |-> defaultTable.val,
                     Distributed |-> distributed.val, GatewayID |-> gatewayID.val,
                     GatewayName |-> gatewayName.val, TenantID |-> tenantID.val,
                     State |-> state.val, CreateTime |-> createTime.val,
                     VPCs |-> vpcs.val, Subnets |-> subnets.val, Routes |-> routes.val],
            err |-> FirstError(<<id, name, defaultTable, distributed, gatewayID, gatewayName,
                                 tenantID, state, createTime, vpcs, subnets, routes>>)]
    ELSE IF j.k = "null" THEN [val |-> cur, err |-> Nil]
    ELSE [val |-> cur, err |-> UnmarshalTypeError(j.k, "routingtables.RoutingTable")]

----------------------------------------------------------------------------
(* The permissive decode: type assertions on the untyped map *)

\* mutant: the assertion accepts a member of any type
AssertString_Unchecked(o, key) ==
    IF Has(o, key)
    THEN [val |-> IF o[key].k = "str" THEN o[key].v ELSE <<o[key].k>>, ok |-> TRUE]
    ELSE [val |-> EmptyString, ok |-> FALSE]

\* data[key].(string): the value and ok
AssertString(o, key) ==
    IF Has(o, key) /\ o[key].k = "str" THEN [val |-> o[key].v, ok |-> TRUE]
    ELSE [val |-> EmptyString, ok |-> FALSE]

\* data[key].(bool)
AssertBool(o, key) ==
    IF Has(o, key) /\ o[key].k = "bool" THEN [val |-> o[key].v, ok |-> TRUE]
    ELSE [val |-> FALSE, ok |-> FALSE]

\* data[key].(float64), and int(mask) which drops the fraction
AssertFloat64(o, key) ==
    IF Has(o, key) /\ o[key].k = "num" THEN [val |-> o[key].v, ok |-> TRUE]
    ELSE [val |-> 0, ok |-> FALSE]

RECURSIVE parseFlexibleVPCsLoop_StopAtMalformed(_, _, _)
\* mutant: the loop ends at the first element that is neither a string nor an object
parseFlexibleVPCsLoop_StopAtMalformed(v, i, result) ==
    IF i > Len(v) THEN result
    ELSE LET vpc == v[i] IN
         IF vpc.k = "str"
         THEN parseFlexibleVPCsLoop_StopAtMalformed(v, i + 1,
                  append(result, [ID |-> vpc.v, Name |-> EmptyString]))
         ELSE IF vpc.k = "obj"
         THEN parseFlexibleVPCsLoop_StopAtMalformed(v, i + 1,
                  append(result, [ID |-> AssertString(vpc.v, "id").val,
                                  Name |-> AssertString(vpc.v, "name").val]))
         ELSE result

RECURSIVE parseFlexibleVPCsLoop(_, _, _)
\* the loop over the []interface{}: strings and objects are appended, anything else is skipped
parseFlexibleVPCsLoop(v, i, result) ==
    IF i > Len(v) THEN result
    ELSE LET vpc == v[i] IN
         IF vpc.k = "str"
         THEN parseFlexibleVPCsLoop(v, i + 1, append(result, [ID |-> vpc.v, Name |-> EmptyString]))
         ELSE IF vpc.k = "obj"
         THEN LET id == AssertString(vpc.v, "id")
                  name == AssertString(vpc.v, "name")
                  fvi0 == ZeroRef
                  fvi1 == IF id.ok THEN [fvi0 EXCEPT !.ID = id.val] ELSE fvi0
                  fvi2 == IF name.ok THEN [fvi1 EXCEPT !.Name = name.val] ELSE fvi1
              IN parseFlexibleVPCsLoop(v, i + 1, append(result, fvi2))
         ELSE parseFlexibleVPCsLoop(v, i + 1, result)

parseFlexibleVPCs(vpcs) ==
    IF vpcs.k = "arr" THEN parseFlexibleVPCsLoop(vpcs.v, 1, NilSlice) ELSE NilSlice

RECURSIVE parseFlexibleSubnetsLoop(_, _, _)
parseFlexibleSubnetsLoop(v, i, result) ==
    IF i > Len(v) THEN result
    ELSE LET subnet == v[i] IN
         IF subnet.k = "str"
         THEN parseFlexibleSubnetsLoop(v, i + 1, append(result, [ID |-> subnet.v, Name |-> EmptyString]))
         ELSE IF subnet.k = "obj"
         THEN LET id == AssertString(subnet.v, "id")
                  name == AssertString(subnet.v, "name")
                  fsi0 == ZeroRef
                  fsi1 == IF id.ok THEN [fsi0 EXCEPT !.ID = id.val] ELSE fsi0
                  fsi2 == IF name.ok THEN [fsi1 EXCEPT !.Name = name.val] ELSE fsi1
              IN parseFlexibleSubnetsLoop(v, i + 1, append(result, fsi2))
         ELSE parseFlexibleSubnetsLoop(v, i + 1, result)

parseFlexibleSubnets(subnets) ==
    IF subnets.k = "arr" THEN parseFlexibleSubnetsLoop(subnets.v, 1, NilSlice) ELSE NilSlice

\* the Route built from one routeMap: every member that has its type is stored
parseRouteMap(routeMap) ==
    LET id == AssertString(routeMap, "id")
        cidr == AssertString(routeMap, "cidr")
        mask == AssertFloat64(routeMap, "mask")
        gateway == AssertString(routeMap, "gateway")
        gatewayID == AssertString(routeMap, "gateway_id")
        description == AssertString(routeMap, "description")
        routingtableID == AssertString(routeMap, "routingtable_id")
        tenantID == AssertString(routeMap, "tenant_id")
        hidden == AssertBool(routeMap, "hidden")
    IN [ID |-> IF id.ok THEN id.val ELSE EmptyString,
        CIDR |-> IF cidr.ok THEN cidr.val ELSE EmptyString,
        Mask |-> IF mask.ok THEN mask.val ELSE 0,
        Gateway |-> IF gateway.ok THEN gateway.val ELSE EmptyString,
        GatewayID |-> IF gatewayID.ok THEN gatewayID.val ELSE EmptyString,
        Description |-> IF description.ok THEN AddressOf(description.val) ELSE NilString,
        RoutingTableID |-> IF routingtableID.ok THEN routingtableID.val ELSE EmptyString,
        TenantID |-> IF tenantID.ok THEN tenantID.val ELSE EmptyString,
        Hidden |-> IF hidden.ok THEN hidden.val ELSE FALSE]

RECURSIVE parseRoutesLoop_DropMalformed(_, _, _)
\* mutant: a route object the strict decode rejects is dropped
parseRoutesLoop_DropMalformed(routes, i, result) ==
    IF i > Len(routes) THEN result
    ELSE IF routes[i].k = "obj" /\ UnmarshalRoute(ZeroRoute, routes[i]).err = Nil
    THEN parseRoutesLoop_DropMalformed(routes, i + 1, append(result, parseRouteMap(routes[i].v)))
    ELSE parseRoutesLoop_DropMalformed(routes, i + 1, result)

RECURSIVE parseRoutesLoop(_, _, _)
parseRoutesLoop(routes, i, result) ==
    IF i > Len(routes) THEN result
    ELSE IF routes[i].k = "obj"
    THEN parseRoutesLoop(routes, i + 1, append(result, parseRouteMap(routes[i].v)))
    ELSE parseRoutesLoop(routes, i + 1, result)

parseRoutes(routes) == parseRoutesLoop(routes, 1, NilSlice)

\* the fields parseRoutingTableFromMap stores in rt
parseMapFields(o) ==
    LET id == AssertString(o, "id")
        name == AssertString(o, "name")
        defaultTable == AssertBool(o, "default_table")
        distributed == AssertBool(o, "distributed")
        gatewayID == AssertString(o, "gateway_id")
        gatewayName == AssertString(o, "gateway_name")
        tenantID == AssertString(o, "tenant_id")
        state == AssertString(o, "state")
        createTimeStr == AssertString(o, "create_time")
        ct == NHNCloudTime_UnmarshalJSON(ZeroTime, JStr(createTimeStr.val))
    IN [ID |-> IF id.ok THEN id.val ELSE EmptyString,
        Name |-> IF name.ok THEN name.val ELSE EmptyString,
        DefaultTable |-> IF defaultTable.ok THEN defaultTable.val ELSE FALSE,
        Distributed |-> IF distributed.ok THEN distributed.val ELSE FALSE,
        GatewayID |-> IF gatewayID.ok THEN gatewayID.val ELSE EmptyString,
        GatewayName |-> IF gatewayName.ok THEN gatewayName.val ELSE EmptyString,
        TenantID |-> IF tenantID.ok THEN tenantID.val ELSE EmptyString,
        State |-> IF state.ok THEN state.val ELSE EmptyString,
        CreateTime |-> IF createTimeStr.ok /\ ct.err = Nil THEN ct.val ELSE ZeroTime,
        VPCs |-> IF Has(o, "vpcs") THEN parseFlexibleVPCs(o.vpcs) ELSE NilSlice,
        Subnets |-> IF Has(o, "subnets") THEN parseFlexibleSubnets(o.subnets) ELSE NilSlice,
        Routes |-> IF Has(o, "routes") /\ o.routes.k = "arr"
                   THEN parseRoutes(o.routes.v) ELSE NilSlice]

parseRoutingTableFromMap(o) == [val |-> PointerTo(parseMapFields(o)), err |-> Nil]

----------------------------------------------------------------------------
(* Extraction from a RoutingTableResult *)

\* the "routingtable" member of the body has not been seen (empty RawMessage)
NoRaw == [k |-> "none"]

\* r.ExtractInto(&s) with s.RoutingTable *RoutingTable: the body is decoded into
\* the envelope struct
ExtractIntoPointer(b) ==
    IF b.k = "obj" THEN
        IF ~Has(b.v, "routingtable") \/ b.v.routingtable.k = "null"
        THEN [val |-> NilRoutingTable, err |-> Nil]
        ELSE LET Envelope(r) == [val |-> PointerTo(r.val), err |-> r.err]
             IN Envelope(UnmarshalRoutingTable(ZeroRoutingTable, b.v.routingtable))
    ELSE IF b.k = "null" THEN [val |-> NilRoutingTable, err |-> Nil]
    ELSE [val |-> NilRoutingTable, err |-> UnmarshalTypeError(b.k, "struct")]

\* r.ExtractInto(&response) with response.RoutingTable json.RawMessage
ExtractIntoRaw(b) ==
    IF b.k = "obj" THEN
        [val |-> IF Has(b.v, "routingtable") THEN b.v.routingtable ELSE NoRaw, err |-> Nil]
    ELSE IF b.k = "null" THEN [val |-> NoRaw, err |-> Nil]
    ELSE [val |-> NoRaw, err |-> UnmarshalTypeError(b.k, "struct")]

SyntaxError == <<"unexpected end of JSON input">>

\* mutant: a value no decode accepts yields an empty record and no error
ExtractRoutingTableWithFallback_EmptyOnFailure(b, e) ==
    IF e # Nil THEN [val |-> NilRoutingTable, err |-> e]
    ELSE LET response == ExtractIntoRaw(b) IN
         IF response.err # Nil
         THEN [val |-> NilRoutingTable, err |-> <<"failed to extract response: ">> \o response.err]
         ELSE LET raw == response.val
                  AfterStrict(strict) ==
                      IF strict.err # Nil
                      THEN IF raw.k \in {"obj", "null"}
                           THEN parseRoutingTableFromMap(IF raw.k = "obj" THEN raw.v
                                                         ELSE EmptyObject)
                           ELSE [val |-> PointerTo(ZeroRoutingTable), err |-> Nil]
                      ELSE [val |-> PointerTo(strict.val), err |-> Nil]
              IN AfterStrict(IF raw = NoRaw
                             THEN [val |-> ZeroRoutingTable, err |-> SyntaxError]
                             ELSE UnmarshalRoutingTable(ZeroRoutingTable, raw))

\* mutant: no fallback to the untyped map when the strict decode fails
ExtractRoutingTableWithFallback_NoMap(b, e) ==
    IF e # Nil THEN [val |-> NilRoutingTable, err |-> e]
    ELSE LET response == ExtractIntoRaw(b) IN
         IF response.err # Nil
         THEN [val |-> NilRoutingTable, err |-> <<"failed to extract response: ">> \o response.err]
         ELSE LET AfterStrict(strict) ==
                      IF strict.err # Nil
                      THEN [val |-> NilRoutingTable,
                            err |-> <<"failed to unmarshal routing table: ">> \o strict.err]
                      ELSE [val |-> PointerTo(strict.val), err |-> Nil]
              IN AfterStrict(IF response.val = NoRaw
                             THEN [val |-> ZeroRoutingTable, err |-> SyntaxError]
                             ELSE UnmarshalRoutingTable(ZeroRoutingTable, response.val))

ExtractRoutingTableWithFallback(b, e) ==
    IF e # Nil THEN [val |-> NilRoutingTable, err |-> e]
    ELSE LET response == ExtractIntoRaw(b) IN
         IF response.err # Nil
         THEN [val |-> NilRoutingTable, err |-> <<"failed to extract response: ">> \o response.err]
         ELSE LET raw == response.val
                  \* the strict decode has run: on its error the untyped map is tried
                  AfterStrict(strict) ==
                      IF strict.err # Nil
                      THEN IF raw.k \in {"obj", "null"}
                           THEN parseRoutingTableFromMap(IF raw.k = "obj" THEN raw.v
                                                         ELSE EmptyObject)
                           ELSE [val |-> NilRoutingTable,
                                 err |-> <<"failed to unmarshal routing table: ">> \o strict.err]
                      ELSE [val |-> PointerTo(strict.val), err |-> Nil]
              IN AfterStrict(IF raw = NoRaw
                             THEN [val |-> ZeroRoutingTable, err |-> SyntaxError]
                             ELSE UnmarshalRoutingTable(ZeroRoutingTable, raw))

Extract(b, e) ==
    IF e # Nil THEN [val |-> NilRoutingTable, err |-> e]
    ELSE LET AfterExtractInto(s) ==
                 IF s.err # Nil
                 THEN ExtractRoutingTableWithFallback(b, e)
                 ELSE [val |-> s.val, err |-> Nil]
         IN AfterExtractInto(ExtractIntoPointer(b))

ExtractRoutingTable(b, e) == ExtractRoutingTableWithFallback(b, e)

----------------------------------------------------------------------------
(* Extraction from a RouteResult *)

\* r.ExtractInto(&response) with response.Route json.RawMessage
ExtractIntoRawRoute(b) ==
    IF b.k = "obj" THEN
        [val |-> IF Has(b.v, "route") THEN b.v.route ELSE NoRaw, err |-> Nil]
    ELSE IF b.k = "null" THEN [val |-> NoRaw, err |-> Nil]
    ELSE [val |-> NoRaw, err |-> UnmarshalTypeError(b.k, "struct")]

\* mutant: the result's Err is not looked at before the body is decoded
ExtractRoute_IgnoreErr(b, e) ==
    LET response == ExtractIntoRawRoute(b) IN
    IF response.err # Nil
    THEN [val |-> NilRoute, err |-> <<"failed to extract response: ">> \o response.err]
    ELSE LET AfterUnmarshal(r) ==
                 IF r.err # Nil
                 THEN [val |-> NilRoute, err |-> <<"failed to unmarshal route: ">> \o r.err]
                 ELSE [val |-> PointerTo(r.val), err |-> Nil]
         IN AfterUnmarshal(IF response.val = NoRaw
                           THEN [val |-> ZeroRoute, err |-> SyntaxError]
                           ELSE UnmarshalRoute(ZeroRoute, response.val))

\* RouteResult.ExtractRoute
ExtractRoute(b, e) ==
    IF e # Nil THEN [val |-> NilRoute, err |-> e]
    ELSE LET response == ExtractIntoRawRoute(b) IN
         IF response.err # Nil
         THEN [val |-> NilRoute, err |-> <<"failed to extract response: ">> \o response.err]
         ELSE LET AfterUnmarshal(r) ==
                      IF r.err # Nil
                      THEN [val |-> NilRoute, err |-> <<"failed to unmarshal route: ">> \o r.err]
                      ELSE [val |-> PointerTo(r.val), err |-> Nil]
              IN AfterUnmarshal(IF response.val = NoRaw
                                THEN [val |-> ZeroRoute, err |-> SyntaxError]
                                ELSE UnmarshalRoute(ZeroRoute, response.val))

----------------------------------------------------------------------------
(* List pages *)

\* json.Unmarshal into a []RoutingTable: every element is decoded strictly
UnmarshalRoutingTables(cur, j) ==
    IF j.k = "arr" THEN
        LET Collect(elems) ==
                [val |-> MakeSlice([i \in 1..Len(j.v) |-> elems[i].val]),
                 err |-> FirstError(elems)]
        IN Collect([i \in 1..Len(j.v) |-> UnmarshalRoutingTable(ZeroRoutingTable, j.v[i])])
    ELSE IF j.k = "null" THEN [val |-> NilSlice, err |-> Nil]
    ELSE [val |-> cur, err |-> UnmarshalTypeError(j.k, "[]routingtables.RoutingTable")]

\* ExtractRoutingTables: r.ExtractInto(&s) with s.RoutingTables []RoutingTable;
\* the slice is returned together with the error of the decode
ExtractRoutingTables(b) ==
    IF b.k = "obj" THEN
        IF Has(b.v, "routingtables")
        THEN UnmarshalRoutingTables(NilSlice, b.v.routingtables)
        ELSE [val |-> NilSlice, err |-> Nil]
    ELSE IF b.k = "null" THEN [val |-> NilSlice, err |-> Nil]
    ELSE [val |-> NilSlice, err |-> UnmarshalTypeError(b.k, "struct")]

\* RoutingTablePage.IsEmpty
IsEmpty(b) ==
    LET Count(r) == [val |-> Len(r.val.e) = 0, err |-> r.err]
    IN Count(ExtractRoutingTables(b))

\* json.Unmarshal into a gophercloud.Link {Href `json:"href"`, Rel `json:"rel"`}
UnmarshalLink(cur, j) ==
    IF j.k = "obj" THEN
        LET Both(href, rel) ==
                [val |-> [Href |-> href.val, Rel |-> rel.val], err |-> FirstErr(href.err, rel.err)]
        IN Both(Member(UnmarshalString, cur.Href, j.v, "href"),
                Member(UnmarshalString, cur.Rel, j.v, "rel"))
    ELSE IF j.k = "null" THEN [val |-> cur, err |-> Nil]
    ELSE [val |-> cur, err |-> UnmarshalTypeError(j.k, "gophercloud.Link")]

ZeroLink == [Href |-> EmptyString, Rel |-> EmptyString]

\* json.Unmarshal into a []gophercloud.Link
UnmarshalLinks(cur, j) ==
    IF j.k = "arr" THEN
        LET Collect(elems) ==
                [val |-> MakeSlice([i \in 1..Len(j.v) |-> elems[i].val]),
                 err |-> FirstError(elems)]
        IN Collect([i \in 1..Len(j.v) |-> UnmarshalLink(ZeroLink, j.v[i])])
    ELSE IF j.k = "null" THEN [val |-> NilSlice, err |-> Nil]
    ELSE [val |-> cur, err |-> UnmarshalTypeError(j.k, "[]gophercloud.Link")]

RECURSIVE ExtractNextURLLoop(_, _, _)
\* the loop of gophercloud.ExtractNextURL: the href of a link whose rel is "next"
ExtractNextURLLoop(links, i, found) ==
    IF i > Len(links) THEN found
    ELSE ExtractNextURLLoop(links, i + 1,
                            IF links[i].Rel = <<"next">> THEN links[i].Href ELSE found)

\* gophercloud.ExtractNextURL(links): the empty URL and no error when there is no next link
ExtractNextURL(links) == [val |-> ExtractNextURLLoop(links.e, 1, EmptyString), err |-> Nil]

\* mutant: a page without the links field is an error
NextPageURL_RequireLinks(b, linksKey) ==
    IF b.k = "obj" /\ Has(b.v, linksKey) THEN
        LET Next(s) ==
                IF s.err # Nil THEN [val |-> EmptyString, err |-> s.err]
                ELSE ExtractNextURL(s.val)
        IN Next(UnmarshalLinks(NilSlice, b.v[linksKey]))
    ELSE [val |-> EmptyString, err |-> <<"no links">>]

\* NextPageURL of a page whose links are under linksKey: r.ExtractInto(&s) with
\* s.Links []gophercloud.Link, then gophercloud.ExtractNextURL(s.Links)
NextPageURL(b, linksKey) ==
    IF b.k = "obj" THEN
        LET Next(s) ==
                IF s.err # Nil THEN [val |-> EmptyString, err |-> s.err]
                ELSE ExtractNextURL(s.val)
        IN Next(IF Has(b.v, linksKey) THEN UnmarshalLinks(NilSlice, b.v[linksKey])
                ELSE [val |-> NilSlice, err |-> Nil])
    ELSE IF b.k = "null" THEN ExtractNextURL(NilSlice)
    ELSE [val |-> EmptyString, err |-> UnmarshalTypeError(b.k, "struct")]

RoutingTablePage_NextPageURL(b) == NextPageURL(b, "routingtables_links")
RoutePage_NextPageURL(b) == NextPageURL(b, "routes_links")
InternetGatewayPage_NextPageURL(b) == NextPageURL(b, "internetgateways_links")

----------------------------------------------------------------------------
(* Payloads of the reference codec *)

Ids == {<<"id-" \o ToString(i)>> : i \in 1..MaxIds}
Names == {<<"alpha">>}
NoJSON == [k |-> "none"]

\* what an "id" or "name" member of an object may hold
RefFieldValues(strs) ==
    {JStr(s) : s \in strs \cup {EmptyString}} \cup {JNull, JNum(7, FALSE)}

RefObjects ==
    {JObj(EmptyObject)}
    \cup {JObj([id |-> i]) : i \in RefFieldValues(Ids)}
    \cup {JObj([name |-> n]) : n \in RefFieldValues(Names)}
    \cup {JObj([id |-> i, name |-> n]) : i \in RefFieldValues(Ids), n \in RefFieldValues(Names)}
    \cup {JObj([id |-> JStr(<<"id-1">>), name |-> JStr(<<"alpha">>), tenant_id |-> JNum(7, FALSE)])}

RefPayloads ==
    {JStr(s) : s \in Ids \cup {EmptyString}}
    \cup {JNull, JNum(7, FALSE), JNum(1, TRUE), JBool(FALSE), JArr(<<>>), JArr(<<JStr(<<"id-1">>)>>)}
    \cup RefObjects

----------------------------------------------------------------------------
(* The reference codec as a state machine *)

InitRef ==
    /\ fvi = ZeroRef
    /\ fsi = ZeroRef
    /\ data = NoJSON
    /\ recv = ZeroRef
    /\ derr = Nil
    /\ out = NoJSON

InitRT ==
    /\ body = NoJSON
    /\ rerr = Nil
    /\ rt = NilRoutingTable
    /\ xerr = Nil

\* the nil error
NilError == [kind |-> "nil"]
\* an ErrUnexpectedResponseCode value with its Actual code
ErrUnexpectedResponseCode(actual) == [kind |-> "code", actual |-> actual]
\* an error of another type that wraps nothing
OtherError == [kind |-> "other"]
\* fmt.Errorf("...: %w", inner)
Wrapped(inner) == [kind |-> "wrap", inner |-> inner]
\* errors.Join(first, second)
Joined(first, second) == [kind |-> "join", errs |-> <<first, second>>]

RECURSIVE FirstFound(_)
\* the first result of the sequence that found a value
FirstFound(results) ==
    IF results = <<>> THEN [found |-> FALSE, actual |-> 0]
    ELSE IF Head(results).found THEN Head(results)
    ELSE FirstFound(Tail(results))

RECURSIVE errors_As(_)
\* errors.As(err, &codeError): the first ErrUnexpectedResponseCode of err's
\* tree, err itself first, then what it unwraps to, depth first
errors_As(err) ==
    CASE err.kind = "code" -> [found |-> TRUE, actual |-> err.actual]
      [] err.kind = "wrap" -> errors_As(err.inner)
      [] err.kind = "join" -> FirstFound([i \in 1..Len(err.errs) |-> errors_As(err.errs[i])])
      [] OTHER -> [found |-> FALSE, actual |-> 0]

\* mutant: a type assertion on err itself in place of errors.As
ResponseCodeIs_NoUnwrap(err, code) ==
    IF err.kind = "code" THEN err.actual = code ELSE FALSE

ResponseCodeIs(err, code) ==
    LET Compare(codeError) == IF codeError.found THEN codeError.actual = code ELSE FALSE
    IN Compare(errors_As(err))

\* no request operation has been invoked
NoRequest == [name |-> "none", optsValid |-> TRUE]

InitAux ==
    /\ ctime = ZeroTime
    /\ tables = NilSlice
    /\ empty = TRUE
    /\ url = EmptyString
    /\ route = NilRoute
    /\ req = NoRequest
    /\ pc = "idle"
    /\ calls = 0
    /\ codeErr = NilError
    /\ status = 0
    /\ codeIs = FALSE
    /\ strings = NilSlice
    /\ gw = ZeroInternetGateway
    /\ gws = NilSlice

Init == InitRef /\ InitRT /\ InitAux /\ op = "init"

\* var fvi FlexibleVPCInfo
NewVPCInfo ==
    /\ fvi' = ZeroRef
    /\ op' = "NewVPCInfo"
    /\ UNCHANGED <<fsi, data, recv, derr, out>>
    /\ UNCHANGED rtVars
    /\ UNCHANGED auxVars

\* var fsi FlexibleSubnetInfo
NewSubnetInfo ==
    /\ fsi' = ZeroRef
    /\ op' = "NewSubnetInfo"
    /\ UNCHANGED <<fvi, data, recv, derr, out>>
    /\ UNCHANGED rtVars
    /\ UNCHANGED auxVars

UnmarshalVPC ==
    \E j \in RefPayloads :
        LET r == FlexibleVPCInfo_UnmarshalJSON(fvi, j) IN
        /\ fvi' = r.ref
        /\ derr' = r.err
        /\ data' = j
        /\ recv' = fvi
        /\ out' = NoJSON
        /\ op' = "UnmarshalVPC"
        /\ UNCHANGED fsi
        /\ UNCHANGED rtVars
        /\ UNCHANGED auxVars

UnmarshalSubnet ==
    \E j \in RefPayloads :
        LET r == FlexibleSubnetInfo_UnmarshalJSON(fsi, j) IN
        /\ fsi' = r.ref
        /\ derr' = r.err
        /\ data' = j
        /\ recv' = fsi
        /\ out' = NoJSON
        /\ op' = "UnmarshalSubnet"
        /\ UNCHANGED fvi
        /\ UNCHANGED rtVars
        /\ UNCHANGED auxVars

\* MarshalJSON right after a decode, of the value that decode left
MarshalVPC ==
    /\ op = "UnmarshalVPC"
    /\ out' = FlexibleVPCInfo_MarshalJSON(fvi)
    /\ op' = "MarshalVPC"
    /\ UNCHANGED <<fvi, fsi, data, recv, derr>>
    /\ UNCHANGED rtVars
    /\ UNCHANGED auxVars

MarshalSubnet ==
    /\ op = "UnmarshalSubnet"
    /\ out' = FlexibleSubnetInfo_MarshalJSON(fsi)
    /\ op' = "MarshalSubnet"
    /\ UNCHANGED <<fvi, fsi, data, recv, derr>>
    /\ UNCHANGED rtVars
    /\ UNCHANGED auxVars

----------------------------------------------------------------------------
(* Response bodies of a routing-table operation *)

Absent == [k |-> "absent"]
Apply(o, key, alt) == IF alt = Absent THEN Drop(o, key) ELSE With(o, key, alt)

\* sequences over elems of length at most n
SeqsUpTo(elems, n) == UNION {[1..len -> elems] : len \in 0..n}

WellFormedRoute ==
    [id |-> JStr(<<"route-1">>), cidr |-> JStr(<<"10.0.0.0/8">>), mask |-> JNum(8, FALSE),
     gateway |-> JStr(<<"10.0.0.1">>), gateway_id |-> JStr(<<"igw-1">>),
     description |-> JStr(<<"to igw">>), routingtable_id |-> JStr(<<"rt-1">>),
     tenant_id |-> JStr(<<"t1">>), hidden |-> JBool(TRUE)]

WellFormedRoutingTable ==
    [id |-> JStr(<<"rt-1">>), name |-> JStr(<<"rt">>), default_table |-> JBool(TRUE),
     distributed |-> JBool(TRUE), gateway_id |-> JStr(<<"igw-1">>),
     gateway_name |-> JStr(<<"igw">>), tenant_id |-> JStr(<<"t1">>),
     state |-> JStr(<<"ACTIVE">>),
     create_time |-> JStr(<<"2024-02-13", " ", "10:45:57">>),
     vpcs |-> JArr(<<JStr(<<"id-1">>), JObj([id |-> JStr(<<"id-2">>), name |-> JStr(<<"alpha">>)])>>),
     subnets |-> JArr(<<JStr(<<"id-1">>)>>),
     routes |-> JArr(<<JObj(WellFormedRoute)>>)]

StringKeys == {"id", "name", "gateway_id", "gateway_name", "tenant_id", "state"}
BoolKeys == {"default_table", "distributed"}
ScalarKeys == StringKeys \cup BoolKeys \cup {"create_time"}
ListKeys == {"vpcs", "subnets", "routes"}

VPCElements ==
    {JStr(<<"id-" \o ToString(MaxIds)>>), JObj([id |-> JStr(<<"id-1">>), name |-> JStr(<<"alpha">>)]),
     JNum(7, FALSE), JNull, JObj([id |-> JNum(7, FALSE), name |-> JStr(<<"alpha">>)])}
SubnetElements ==
    {JStr(<<"id-1">>), JBool(TRUE), JObj([name |-> JStr(<<"alpha">>)])}
RouteElements ==
    {JObj(WellFormedRoute), JNum(7, FALSE),
     JObj(With(WellFormedRoute, "mask", JStr(<<"8">>))),
     JObj(With(Drop(WellFormedRoute, "cidr"), "mask", JNum(8, TRUE)))}

\* what a member of the record may hold instead of its well-formed value
Alternatives(key) ==
    CASE key \in StringKeys -> {Absent, JNull, JNum(7, FALSE)}
      [] key \in BoolKeys -> {Absent, JNull, JStr(<<"true">>), JBool(FALSE)}
      [] key = "create_time" ->
            {Absent, JNull, JNum(7, FALSE), JStr(EmptyString), JStr(<<"yesterday">>),
             JStr(<<"2024-02-13", "T", "10:45:57", "+09:00">>)}
      [] key = "vpcs" ->
            {Absent, JNull, JStr(<<"id-1">>)} \cup {JArr(a) : a \in SeqsUpTo(VPCElements, MaxListLen)}
      [] key = "subnets" ->
            {Absent, JNull, JObj(EmptyObject)} \cup {JArr(a) : a \in SeqsUpTo(SubnetElements, MaxListLen)}
      [] key = "routes" ->
            {Absent, JNull, JNum(7, FALSE)} \cup {JArr(a) : a \in SeqsUpTo(RouteElements, MaxListLen)}

\* the records of base with one member among keys replaced
Replaced(base, keys) ==
    {Apply(o, key, alt) : o \in base,
        <<key, alt>> \in UNION {{<<k2, a>> : a \in Alternatives(k2)} : k2 \in keys}}

RECURSIVE ScalarPayloads(_)
\* the well-formed record with at most n scalar members replaced
ScalarPayloads(n) ==
    IF n = 0 THEN {WellFormedRoutingTable}
    ELSE ScalarPayloads(n - 1) \cup Replaced(ScalarPayloads(n - 1), ScalarKeys)

\* the well-formed record with at most n members replaced, one list among them at most
RoutingTablePayloads(n) ==
    ScalarPayloads(n) \cup Replaced(ScalarPayloads(n - 1), ListKeys)

Bodies ==
    {JObj([routingtable |-> JObj(o)]) : o \in RoutingTablePayloads(MaxMalformed)}
    \cup {JNull, JArr(<<>>), JObj(EmptyObject)}
    \cup {JObj([routingtable |-> j]) :
            j \in {JNull, JArr(<<>>), JNum(7, FALSE), JStr(<<"rt-1">>), JObj(EmptyObject)}}

TransportError == <<"connection refused">>

----------------------------------------------------------------------------
(* The extractor as a state machine: a result arrives once and is then     *)
(* read by the extraction methods.                                         *)

InitExtract ==
    /\ InitRef
    /\ InitAux
    /\ op = "init"
    /\ \/ body \in Bodies /\ rerr = Nil
       \/ body = JNull /\ rerr = TransportError
    /\ rt = NilRoutingTable
    /\ xerr = Nil

CallExtract ==
    \E r \in {Extract(body, rerr)} :
    /\ rt' = r.val
    /\ xerr' = r.err
    /\ op' = "Extract"
    /\ UNCHANGED <<body, rerr>>
    /\ UNCHANGED refVars
    /\ UNCHANGED auxVars

CallExtractRoutingTableWithFallback ==
    \E r \in {ExtractRoutingTableWithFallback(body, rerr)} :
    /\ rt' = r.val
    /\ xerr' = r.err
    /\ op' = "ExtractRoutingTableWithFallback"
    /\ UNCHANGED <<body, rerr>>
    /\ UNCHANGED refVars
    /\ UNCHANGED auxVars

CallExtractRoutingTable ==
    \E r \in {ExtractRoutingTable(body, rerr)} :
    /\ rt' = r.val
    /\ xerr' = r.err
    /\ op' = "ExtractRoutingTable"
    /\ UNCHANGED <<body, rerr>>
    /\ UNCHANGED refVars
    /\ UNCHANGED auxVars

NextExtract ==
    \/ CallExtract
    \/ CallExtractRoutingTableWithFallback
    \/ CallExtractRoutingTable

SpecExtract == InitExtract /\ [][NextExtract]_vars

----------------------------------------------------------------------------
(* Results of routing-table and route operations, with or without a       *)
(* transport error, read by the extraction methods.                        *)

RouteBodies ==
    {JObj([route |-> j]) :
        j \in {JObj(WellFormedRoute), JNull, JNum(7, FALSE),
               JObj(With(WellFormedRoute, "mask", JStr(<<"8">>))),
               JObj(With(WellFormedRoute, "description", JNull)),
               JObj(Drop(WellFormedRoute, "hidden"))}}

ResultBodies ==
    RouteBodies
    \cup {JNull, JArr(<<>>), JObj(EmptyObject)}
    \cup {JObj([routingtable |-> j]) :
            j \in {JObj(WellFormedRoutingTable), JNull, JNum(7, FALSE),
                   JObj(With(WellFormedRoutingTable, "distributed", JStr(<<"true">>))),
                   JObj(With(WellFormedRoutingTable, "vpcs", JArr(<<JNum(7, FALSE)>>)))}}

\* r.Err after a response with a status the call does not expect
NotFoundError == <<"Expected HTTP response code [200]", "but got 404 instead">>

InitResult ==
    /\ InitRef
    /\ InitAux
    /\ op = "init"
    /\ body \in ResultBodies
    /\ rerr \in {Nil, TransportError, NotFoundError}
    /\ rt = NilRoutingTable
    /\ xerr = Nil

CallExtractRoute ==
    \E r \in {ExtractRoute(body, rerr)} :
        /\ route' = r.val
        /\ xerr' = r.err
        /\ op' = "ExtractRoute"
        /\ UNCHANGED <<body, rerr, rt>>
        /\ UNCHANGED <<refVars, ctime, pageVars, reqVars, codeVars, accVars, gwVars>>

NextResult ==
    \/ CallExtract
    \/ CallExtractRoutingTableWithFallback
    \/ CallExtractRoutingTable
    \/ CallExtractRoute

SpecResult == InitResult /\ [][NextResult]_vars

----------------------------------------------------------------------------
(* List pages as a state machine: a page arrives once and is then read.   *)
(* The records of a page deviate from the well-formed one in members the  *)
(* decoder reports as an UnmarshalTypeError, after which it goes on.      *)

PageRecords ==
    {JObj(WellFormedRoutingTable),
     JObj(With(WellFormedRoutingTable, "distributed", JStr(<<"true">>)))}

NextLink == JObj([rel |-> JStr(<<"next">>), href |-> JStr(<<"page-2">>)])
PreviousLink == JObj([rel |-> JStr(<<"previous">>), href |-> JStr(<<"page-0">>)])

LinksKeys == {"routingtables_links", "routes_links", "internetgateways_links"}

PageLinks ==
    {JArr(a) : a \in SeqsUpTo({NextLink, PreviousLink}, MaxListLen)}
    \cup {JNull, JStr(<<"page-2">>), JArr(<<JNum(7, FALSE)>>),
          JArr(<<JObj([rel |-> JStr(<<"next">>)])>>)}

PageBodies ==
    LET lists == {Absent, JNull} \cup {JArr(a) : a \in SeqsUpTo(PageRecords, MaxListLen)}
        links == {<<k2, l>> : k2 \in LinksKeys, l \in PageLinks} \cup {<<"routingtables_links", Absent>>}
    IN {JObj(Apply(Apply(EmptyObject, "routingtables", list), kl[1], kl[2])) :
            list \in lists, kl \in links}

InitPage ==
    /\ InitRef
    /\ InitAux
    /\ op = "init"
    /\ body \in PageBodies
    /\ rerr = Nil
    /\ rt = NilRoutingTable
    /\ xerr = Nil

CallExtractRoutingTables ==
    \E r \in {ExtractRoutingTables(body)} :
        /\ tables' = r.val
        /\ xerr' = r.err
        /\ op' = "ExtractRoutingTables"
        /\ UNCHANGED <<empty, url>>
        /\ UNCHANGED <<body, rerr, rt>>
        /\ UNCHANGED <<refVars, ctime, routeVars, reqVars, codeVars, accVars, gwVars>>

CallIsEmpty ==
    \E r \in {IsEmpty(body)} :
        /\ empty' = r.val
        /\ xerr' = r.err
        /\ op' = "IsEmpty"
        /\ UNCHANGED <<tables, url>>
        /\ UNCHANGED <<body, rerr, rt>>
        /\ UNCHANGED <<refVars, ctime, routeVars, reqVars, codeVars, accVars, gwVars>>

CallRoutingTablePageNextPageURL ==
    \E r \in {RoutingTablePage_NextPageURL(body)} :
        /\ url' = r.val
        /\ xerr' = r.err
        /\ op' = "RoutingTablePage.NextPageURL"
        /\ UNCHANGED <<tables, empty>>
        /\ UNCHANGED <<body, rerr, rt>>
        /\ UNCHANGED <<refVars, ctime, routeVars, reqVars, codeVars, accVars, gwVars>>

CallRoutePageNextPageURL ==
    \E r \in {RoutePage_NextPageURL(body)} :
        /\ url' = r.val
        /\ xerr' = r.err
        /\ op' = "RoutePage.NextPageURL"
        /\ UNCHANGED <<tables, empty>>
        /\ UNCHANGED <<body, rerr, rt>>
        /\ UNCHANGED <<refVars, ctime, routeVars, reqVars, codeVars, accVars, gwVars>>

CallInternetGatewayPageNextPageURL ==
    \E r \in {InternetGatewayPage_NextPageURL(body)} :
        /\ url' = r.val
        /\ xerr' = r.err
        /\ op' = "InternetGatewayPage.NextPageURL"
        /\ UNCHANGED <<tables, empty>>
        /\ UNCHANGED <<body, rerr, rt>>
        /\ UNCHANGED <<refVars, ctime, routeVars, reqVars, codeVars, accVars, gwVars>>

NextPage ==
    \/ CallExtractRoutingTables
    \/ CallIsEmpty
    \/ CallRoutingTablePageNextPageURL
    \/ CallRoutePageNextPageURL
    \/ CallInternetGatewayPageNextPageURL

SpecPage == InitPage /\ [][NextPage]_vars

NextRef ==
    \/ NewVPCInfo
    \/ NewSubnetInfo
    \/ UnmarshalVPC
    \/ UnmarshalSubnet
    \/ MarshalVPC
    \/ MarshalSubnet

SpecRef == Init /\ [][NextRef]_vars

----------------------------------------------------------------------------
(* The timestamp codec as a state machine *)

\* the timestamp strings the formats are written for: separator, optional
\* fraction, optional zone
TimeStrings ==
    {<<d, sep, c>> \o frac \o zone :
        d \in DateTokens, sep \in {" ", "T"}, c \in ClockTokens,
        frac \in {<<>>} \cup {<<f>> : f \in FracTokens},
        zone \in {<<>>} \cup {<<z>> : z \in ZoneTokens}}

TimePayloads ==
    {JStr(str) : str \in TimeStrings}
    \cup {JNull, JStr(EmptyString), JStr(<<"null">>), JStr(<<"yesterday">>),
          JStr(<<"2024-02-13">>), JNum(7, FALSE)}

\* var ctime NHNCloudTime
NewTime ==
    /\ ctime' = ZeroTime
    /\ op' = "NewTime"
    /\ UNCHANGED refVars
    /\ UNCHANGED rtVars
    /\ UNCHANGED <<pageVars, routeVars, reqVars, codeVars, accVars, gwVars>>

UnmarshalTime ==
    \E j \in TimePayloads :
        \E r \in {NHNCloudTime_UnmarshalJSON(ctime, j)} :
            /\ ctime' = r.val
            /\ derr' = r.err
            /\ data' = j
            /\ recv' = ctime
            /\ out' = NoJSON
            /\ op' = "UnmarshalTime"
            /\ UNCHANGED <<fvi, fsi>>
            /\ UNCHANGED rtVars
            /\ UNCHANGED <<pageVars, routeVars, reqVars, codeVars, accVars, gwVars>>

\* MarshalJSON of the value the receiver holds
MarshalTime ==
    /\ op \in {"init", "NewTime", "UnmarshalTime"}
    /\ out' = NHNCloudTime_MarshalJSON(ctime)
    /\ op' = "MarshalTime"
    /\ UNCHANGED <<fvi, fsi, data, recv, derr, ctime>>
    /\ UNCHANGED rtVars
    /\ UNCHANGED <<pageVars, routeVars, reqVars, codeVars, accVars, gwVars>>

NextTime ==
    \/ NewTime
    \/ UnmarshalTime
    \/ MarshalTime

SpecTime == Init /\ [][NextTime]_vars

----------------------------------------------------------------------------
(* Properties of the reference codec (checked under SpecRef) *)

Decoded == op \in {"UnmarshalVPC", "UnmarshalSubnet"}
Encoded == op \in {"MarshalVPC", "MarshalSubnet"}
\* the receiver the last decode or encode worked on
Receiver == IF op \in {"UnmarshalVPC", "MarshalVPC"} THEN fvi ELSE fsi

\* the string a member of a payload object carries, unset when absent or null
MemberOrUnset(o, key) ==
    IF Has(o, key) /\ o[key].k = "str" THEN o[key].v ELSE EmptyString
\* every "id"/"name" member that is present is a string or null
MembersWellTyped(o) ==
    \A key \in {"id", "name"} : Has(o, key) => o[key].k \in {"str", "null"}

\* C5 (as stated): a string payload s gives id = s and no name; an object payload
\* gives id and name equal to its members, an absent member unset, and never fails.
C5_Original ==
    Decoded =>
        /\ data.k = "str" => derr = Nil /\ Receiver = [ID |-> data.v, Name |-> EmptyString]
        /\ data.k = "obj" =>
              /\ derr = Nil
              /\ Receiver.ID = MemberOrUnset(data.v, "id")
              /\ Receiver.Name = MemberOrUnset(data.v, "name")

\* C5 (amended): a string payload s gives id = s and no name, whatever the receiver
\* held; an object payload whose id and name members are strings or null, decoded
\* into a fresh reference, gives id and name equal to its members, an absent or
\* null member unset, and does not fail.
C5_RefDecode ==
    Decoded =>
        /\ data.k = "str" => derr = Nil /\ Receiver = [ID |-> data.v, Name |-> EmptyString]
        /\ (data.k = "obj" /\ recv = ZeroRef /\ MembersWellTyped(data.v)) =>
              /\ derr = Nil
              /\ Receiver.ID = MemberOrUnset(data.v, "id")
              /\ Receiver.Name = MemberOrUnset(data.v, "name")

C5_Witness ==
    /\ op = "UnmarshalVPC"
    /\ recv = ZeroRef
    /\ data = JObj([id |-> JStr(<<"id-1">>)])
    /\ fvi = [ID |-> <<"id-1">>, Name |-> EmptyString]
    /\ derr = Nil

\* C6 (as stated): a decode fails only if the payload is neither a string nor an
\* object, and a number, boolean or array always fails.
C6_Original ==
    Decoded =>
        /\ derr # Nil => data.k \notin {"str", "obj"}
        /\ data.k \in {"num", "bool", "arr"} => derr # Nil

\* C6 (amended): a decode fails exactly when the payload is a number, a boolean,
\* an array, or an object whose id or name member is present with a type other
\* than string or null; no string and no object with well-typed members fails.
C6_RefDecodeFails ==
    Decoded =>
        (derr # Nil <=>
            \/ data.k \in {"num", "bool", "arr"}
            \/ data.k = "obj" /\ ~MembersWellTyped(data.v))

C6_Witness ==
    /\ op = "UnmarshalSubnet"
    /\ data.k = "arr"
    /\ derr # Nil
    /\ fsi = recv

\* C7: the encoder emits the bare string (just the id) exactly when name is unset
\* and id is set, and the object form in every other case.
C7_RefEncode ==
    Encoded =>
        /\ out.k = "str" <=> (Receiver.Name = EmptyString /\ Receiver.ID # EmptyString)
        /\ out.k = "str" => out.v = Receiver.ID
        /\ out.k # "str" => out.k = "obj"

C7_Witness ==
    /\ op = "MarshalVPC"
    /\ fvi = ZeroRef
    /\ out = JObj(EmptyObject)

\* C8 (as stated): every bare-id string, the empty string included, decoded into a
\* fresh reference and encoded again, comes back as exactly that string.
C8_Original ==
    (Encoded /\ recv = ZeroRef /\ data.k = "str") => out = data

\* C8 (amended): every non-empty bare-id string, decoded into a fresh reference and
\* encoded again, comes back as exactly that string.
C8_StringRoundTrip ==
    (Encoded /\ recv = ZeroRef /\ data.k = "str" /\ data.v # EmptyString) => out = data

C8_Witness ==
    /\ op = "MarshalVPC"
    /\ recv = ZeroRef
    /\ data = JStr(<<"id-1">>)
    /\ out = JStr(<<"id-1">>)

\* C9: an object payload {id, name} with a non-empty name, decoded into a fresh
\* reference and encoded again, comes back in object form with the same id and
\* the same name, never as a bare string.
C9_ObjectRoundTrip ==
    (/\ Encoded
     /\ recv = ZeroRef
     /\ data.k = "obj"
     /\ MembersWellTyped(data.v)
     /\ MemberOrUnset(data.v, "name") # EmptyString) =>
        /\ out.k = "obj"
        /\ MemberOrUnset(out.v, "id") = MemberOrUnset(data.v, "id")
        /\ MemberOrUnset(out.v, "name") = MemberOrUnset(data.v, "name")

C9_Witness ==
    /\ op = "MarshalSubnet"
    /\ recv = ZeroRef
    /\ data = JObj([id |-> JStr(<<"id-1">>), name |-> JStr(<<"alpha">>)])
    /\ out = data

----------------------------------------------------------------------------
(* Properties of the record extractor (checked under SpecExtract) *)

\* the body carries a "routingtable" member that is a JSON object
HasRecordObject ==
    /\ body.k = "obj"
    /\ Has(body.v, "routingtable")
    /\ body.v.routingtable.k = "obj"
\* that object
Payload == body.v.routingtable.v
\* the strict decode of the payload fails, so an extraction goes through the permissive decode
PermissivePath ==
    /\ rerr = Nil
    /\ HasRecordObject
    /\ UnmarshalRoutingTable(ZeroRoutingTable, body.v.routingtable).err # Nil
Extracted == op \in {"Extract", "ExtractRoutingTableWithFallback", "ExtractRoutingTable"}

\* C1: for every response without a transport error whose "routingtable" member is
\* a JSON object, whatever the types of its members and nested elements, Extract
\* returns a non-nil record and a nil error.
C1_ExtractNeverFails ==
    (op = "Extract" /\ rerr = Nil /\ HasRecordObject) => (~rt.nil /\ xerr = Nil)

C1_Witness ==
    /\ op = "Extract"
    /\ PermissivePath
    /\ Payload.id.k = "num"
    /\ ~rt.nil
    /\ xerr = Nil
    /\ rt.val.ID = EmptyString
    /\ rt.val.Name = <<"rt">>

\* the reference a string or object element of a nested list stands for
RefOf(e) ==
    IF e.k = "str" THEN [ID |-> e.v, Name |-> EmptyString]
    ELSE [ID |-> MemberOrUnset(e.v, "id"), Name |-> MemberOrUnset(e.v, "name")]
IsStringOrObject(e) == e.k \in {"str", "obj"}
IsNumberBoolOrArray(e) == e.k \in {"num", "bool", "arr"}
\* the references of the string and object elements of a list, in their order
KeptRefs(list) ==
    LET kept == SelectSeq(list, IsStringOrObject) IN [i \in 1..Len(kept) |-> RefOf(kept[i])]
\* the reference list Extract returned for a list member of the payload
ExtractedRefs(key) == IF key = "vpcs" THEN rt.val.VPCs.e ELSE rt.val.Subnets.e

FieldName(key) ==
    CASE key = "id" -> "ID"
      [] key = "name" -> "Name"
      [] key = "default_table" -> "DefaultTable"
      [] key = "distributed" -> "Distributed"
      [] key = "gateway_id" -> "GatewayID"
      [] key = "gateway_name" -> "GatewayName"
      [] key = "tenant_id" -> "TenantID"
      [] key = "state" -> "State"
      [] key = "create_time" -> "CreateTime"
      [] key = "vpcs" -> "VPCs"
      [] key = "subnets" -> "Subnets"
      [] key = "routes" -> "Routes"
RecordFields == {FieldName(key) : key \in ScalarKeys \cup ListKeys}

MemberHasKind(o, key, kind) == Has(o, key) /\ o[key].k = kind

\* string and boolean members are taken when they have their type, else left at zero
ScalarsTakenOrZero ==
    /\ \A key \in StringKeys :
          rt.val[FieldName(key)] =
              IF MemberHasKind(Payload, key, "str") THEN Payload[key].v ELSE EmptyString
    /\ \A key \in BoolKeys :
          rt.val[FieldName(key)] =
              IF MemberHasKind(Payload, key, "bool") THEN Payload[key].v ELSE FALSE

\* replacing one scalar member changes no other field of the permissive decode and never fails it
OtherFieldsUntouched ==
    \A key \in ScalarKeys :
        \A alt \in Alternatives(key) \cup {WellFormedRoutingTable[key]} :
            LET other == parseRoutingTableFromMap(Apply(Payload, key, alt)) IN
            /\ other.err = Nil
            /\ ~other.val.nil
            /\ \A field \in RecordFields \ {FieldName(key)} :
                  other.val.val[field] = rt.val[field]

\* the layouts of the formats list a string parses with
ParsingFormats(str) == {i \in 1..Len(formats) : time_Parse(formats[i], str).err = Nil}
\* the time the first such layout gives
TimeOfString(str) ==
    time_Parse(formats[CHOOSE i \in ParsingFormats(str) : \A i2 \in ParsingFormats(str) : i <= i2], str).t

\* C3 (as stated): in the permissive decode every scalar member, create_time
\* included, is taken when it has the expected JSON type and is otherwise left at
\* zero; no member produces an error or changes another field.
C3_Original ==
    (Extracted /\ PermissivePath) =>
        /\ xerr = Nil
        /\ ~rt.nil
        /\ ScalarsTakenOrZero
        /\ IF MemberHasKind(Payload, "create_time", "str")
           THEN Payload.create_time.v # EmptyString => rt.val.CreateTime # ZeroTime
           ELSE rt.val.CreateTime = ZeroTime
        /\ OtherFieldsUntouched

\* C3 (amended): in the permissive decode every string or boolean member is taken
\* when it has the expected JSON type and is otherwise left at zero; create_time
\* is taken when it is a string that parses with one of the supported formats and
\* is otherwise left at the zero time; no member produces an error or changes
\* another field.
C3_FieldByField ==
    (Extracted /\ PermissivePath) =>
        /\ xerr = Nil
        /\ ~rt.nil
        /\ ScalarsTakenOrZero
        /\ rt.val.CreateTime =
              IF MemberHasKind(Payload, "create_time", "str")
                    /\ ParsingFormats(Payload.create_time.v) # {}
              THEN TimeOfString(Payload.create_time.v)
              ELSE ZeroTime
        /\ OtherFieldsUntouched

C3_Witness ==
    /\ op = "Extract"
    /\ PermissivePath
    /\ MemberHasKind(Payload, "name", "num")
    /\ rt.val.Name = EmptyString
    /\ rt.val.ID = <<"rt-1">>
    /\ rt.val.DefaultTable
    /\ rt.val.CreateTime = [day |-> 738928, sec |-> 38757, nsec |-> 0, off |-> 0]
    /\ xerr = Nil

\* the route a route object of the payload stands for, member by member
RouteOf(e) ==
    [ID |-> MemberOrUnset(e.v, "id"),
     CIDR |-> MemberOrUnset(e.v, "cidr"),
     Mask |-> IF MemberHasKind(e.v, "mask", "num") THEN e.v.mask.v ELSE 0,
     Gateway |-> MemberOrUnset(e.v, "gateway"),
     GatewayID |-> MemberOrUnset(e.v, "gateway_id"),
     Description |-> IF MemberHasKind(e.v, "description", "str")
                     THEN AddressOf(e.v.description.v) ELSE NilString,
     RoutingTableID |-> MemberOrUnset(e.v, "routingtable_id"),
     TenantID |-> MemberOrUnset(e.v, "tenant_id"),
     Hidden |-> IF MemberHasKind(e.v, "hidden", "bool") THEN e.v.hidden.v ELSE FALSE]
IsObject(e) == e.k = "obj"
\* a route object with every member present and of its type
IsWellFormedRoute(e) ==
    /\ e.k = "obj"
    /\ \A key \in {"id", "cidr", "gateway", "gateway_id", "description",
                   "routingtable_id", "tenant_id"} : MemberHasKind(e.v, key, "str")
    /\ MemberHasKind(e.v, "mask", "num") /\ ~e.v.mask.frac
    /\ MemberHasKind(e.v, "hidden", "bool")
RoutesOf(kept) == [i \in 1..Len(kept) |-> RouteOf(kept[i])]

----------------------------------------------------------------------------
(* Claims about the timestamp codec (SpecTime) *)

\* the last UnmarshalJSON of a timestamp was handed JSON null or the empty string
DecodedNullOrEmpty == op = "UnmarshalTime" /\ data \in {JNull, JStr(EmptyString)}

ZoneOffsetOfString(str) ==
    IF str[Len(str)] \in ZoneTokens THEN OffsetOf(str[Len(str)]) ELSE 0
\* the fraction of a second a timestamp string carries, in nanoseconds
FractionOfString(str) ==
    IF Len(str) >= 4 /\ str[4] \in FracTokens THEN NsecOf(str[4]) ELSE 0
\* day, second of the day and nanosecond in UTC of a wall clock off seconds ahead of it
InUTC(day, sec, nsec, off) ==
    IF sec - off < 0 THEN <<day - 1, sec - off + 86400, nsec>>
    ELSE IF sec - off >= 86400 THEN <<day + 1, sec - off - 86400, nsec>>
    ELSE <<day, sec - off, nsec>>
\* the instant a timestamp string denotes
InstantOfString(str) ==
    InUTC(DayOf(str[1]), SecondOf(str[3]), FractionOfString(str), ZoneOffsetOfString(str))
\* the instant a decoded time is
InstantOf(t) == InUTC(t.day, t.sec, t.nsec, t.off)
\* the timestamp strings one of the six formats parses
SupportedStrings == {str \in TimeStrings : ParsingFormats(str) # {}}
\* an encoded timestamp is a string of the form YYYY-MM-DD HH:MM:SS
IsCanonical(j) ==
    /\ j.k = "str"
    /\ Len(j.v) = 3
    /\ j.v[1] \in DateTokens /\ j.v[2] = " " /\ j.v[3] \in ClockTokens

\* C12 (as stated): two timestamp strings in any of the six supported formats that
\* denote the same instant decode to the same NHNCloudTime, and encoding the two
\* decoded values yields the identical string in the form YYYY-MM-DD HH:MM:SS.
C12_Original ==
    (op = "UnmarshalTime" /\ data.k = "str" /\ data.v \in SupportedStrings) =>
        \A str \in SupportedStrings :
            InstantOfString(str) = InstantOfString(data.v) =>
                LET other == NHNCloudTime_UnmarshalJSON(ZeroTime, JStr(str)) IN
                /\ derr = Nil
                /\ other.err = Nil
                /\ InstantOf(other.val) = InstantOf(ctime)
                /\ ~IsZero(ctime) =>
                      /\ IsCanonical(NHNCloudTime_MarshalJSON(ctime))
                      /\ NHNCloudTime_MarshalJSON(other.val) = NHNCloudTime_MarshalJSON(ctime)

\* the last UnmarshalJSON of a timestamp was handed a string other than "" and null
DecodedTimeString ==
    op = "UnmarshalTime" /\ data.k = "str" /\ data.v \notin {EmptyString, <<"null">>}
\* the error time.Parse gives for the last layout of the list
LastPatternError(str) == time_Parse(formats[Len(formats)], str).err
\* the parts of the sequence part appear in whole, consecutively, in err
Carries(err, part) ==
    \E i \in 0..(Len(err) - Len(part)) : SubSeq(err, i + 1, i + Len(part)) = part

\* C13: decoding a non-empty, non-null timestamp string that no layout parses
\* fails with an error carrying the string and the error of the last layout
\* tried; otherwise the first layout in the list that parses gives the value.
C13_FirstPatternWins ==
    DecodedTimeString =>
        IF ParsingFormats(data.v) = {}
        THEN /\ derr # Nil
             /\ Carries(derr, data.v)
             /\ Carries(derr, LastPatternError(data.v))
             /\ \A i \in 1..(Len(formats) - 1) :
                    ~Carries(derr, time_Parse(formats[i], data.v).err)
        ELSE /\ derr = Nil
             /\ ctime = TimeOfString(data.v)

C13_Witness ==
    /\ op = "UnmarshalTime"
    /\ data = JStr(<<"yesterday">>)
    /\ Carries(derr, <<"yesterday">>)
    /\ Carries(derr, <<"2006-01-02T15:04:05.000000Z">>)
    /\ ctime = recv

----------------------------------------------------------------------------
(* Claims about list pages (SpecPage) *)

\* the page lists records, each of them a JSON object
ListsRecords ==
    /\ body.k = "obj"
    /\ Has(body.v, "routingtables")
    /\ body.v.routingtables.k = "arr"
    /\ \A i \in 1..Len(body.v.routingtables.v) : body.v.routingtables.v[i].k = "obj"

\* C14 (as stated): a list page extracts its records with the resilient extractor:
\* when a routing table of the page has a malformed field, ExtractRoutingTables
\* and IsEmpty do not fail the page but return every record without an error.
C14_Original ==
    (op \in {"ExtractRoutingTables", "IsEmpty"} /\ ListsRecords) =>
        /\ xerr = Nil
        /\ op = "ExtractRoutingTables" => Len(tables.e) = Len(body.v.routingtables.v)
        /\ op = "IsEmpty" => (empty <=> Len(body.v.routingtables.v) = 0)

\* the links field the page type of the last NextPageURL reads
LinksKeyOf(o) ==
    CASE o = "RoutingTablePage.NextPageURL" -> "routingtables_links"
      [] o = "RoutePage.NextPageURL" -> "routes_links"
      [] o = "InternetGatewayPage.NextPageURL" -> "internetgateways_links"
AskedNextPage ==
    op \in {"RoutingTablePage.NextPageURL", "RoutePage.NextPageURL",
            "InternetGatewayPage.NextPageURL"}
\* the link objects with rel "next" and an href in a links value
NextLinksOf(j) ==
    {i \in 1..Len(j.v) :
        /\ j.v[i].k = "obj"
        /\ MemberHasKind(j.v[i].v, "rel", "str") /\ j.v[i].v.rel.v = <<"next">>
        /\ MemberHasKind(j.v[i].v, "href", "str")}
\* a links value that is a list of link objects with string members
IsLinkList(j) ==
    /\ j.k = "arr"
    /\ \A i \in 1..Len(j.v) :
          /\ j.v[i].k = "obj"
          /\ \A key \in DOMAIN j.v[i].v : j.v[i].v[key].k = "str"

\* C15: NextPageURL returns the href of the link with rel "next" of the page's
\* "<resource-plural>_links" field when there is one, and the empty URL with no
\* error when the response has no such field.
C15_NextPageURL ==
    AskedNextPage =>
        /\ ~Has(body.v, LinksKeyOf(op)) => (url = EmptyString /\ xerr = Nil)
        /\ (Has(body.v, LinksKeyOf(op)) /\ IsLinkList(body.v[LinksKeyOf(op)])) =>
              /\ xerr = Nil
              /\ \A i \in NextLinksOf(body.v[LinksKeyOf(op)]) :
                    url = body.v[LinksKeyOf(op)].v[i].v.href.v
              /\ NextLinksOf(body.v[LinksKeyOf(op)]) = {} => url = EmptyString

C15_Witness ==
    /\ op = "RoutePage.NextPageURL"
    /\ Has(body.v, "routes_links")
    /\ body.v.routes_links = JArr(<<PreviousLink, NextLink>>)
    /\ url = <<"page-2">>
    /\ xerr = Nil

----------------------------------------------------------------------------
(* Claims about results with a transport error (SpecResult) *)

\* C16: when the result's Err is set, RoutingTableResult.Extract,
\* ExtractRoutingTableWithFallback and RouteResult.ExtractRoute return a nil record
\* and exactly that error, whatever the body holds.
C16_TransportErrorAborts ==
    rerr # Nil =>
        /\ op \in {"Extract", "ExtractRoutingTableWithFallback", "ExtractRoutingTable"} =>
              (rt.nil /\ xerr = rerr)
        /\ op = "ExtractRoute" => (route.nil /\ xerr = rerr)

C16_Witness ==
    /\ op = "ExtractRoute"
    /\ rerr = TransportError
    /\ body = JObj([route |-> JObj(WellFormedRoute)])
    /\ route.nil
    /\ xerr = TransportError

----------------------------------------------------------------------------
(* Claims about a "routingtable" value that is no object (SpecExtract) *)

ExtractionDone == op \in {"Extract", "ExtractRoutingTableWithFallback", "ExtractRoutingTable"}
\* the response arrived and its "routingtable" value is an array, a number,
\* a string or a boolean
RoutingTableNotAnObject ==
    /\ rerr = Nil
    /\ body.k = "obj"
    /\ Has(body.v, "routingtable")
    /\ body.v.routingtable.k \in {"arr", "num", "str", "bool"}
DigitText(n) == <<"0", "1", "2", "3", "4", "5", "6", "7", "8", "9">>[n + 1]
RECURSIVE NumberText(_)
NumberText(n) == IF n < 10 THEN <<DigitText(n)>> ELSE NumberText(n \div 10) \o <<DigitText(n % 10)>>
RECURSIVE ElementsText(_)
RECURSIVE RawText(_)
\* the text of a JSON value that is no object, as it stands in the payload
RawText(j) ==
    CASE j.k = "null" -> <<"null">>
      [] j.k = "bool" -> IF j.v THEN <<"true">> ELSE <<"false">>
      [] j.k = "num" -> NumberText(j.v) \o (IF j.frac THEN <<".5">> ELSE <<>>)
      [] j.k = "str" -> <<"\"">> \o j.v \o <<"\"">>
      [] j.k = "arr" -> <<"[">> \o ElementsText(j.v) \o <<"]">>
ElementsText(a) ==
    IF a = <<>> THEN <<>>
    ELSE IF Len(a) = 1 THEN RawText(a[1])
    ELSE RawText(a[1]) \o <<",">> \o ElementsText(Tail(a))
\* the reason of the strict decoder for the "routingtable" value of the body
DecodeReason == UnmarshalTypeError(body.v.routingtable.k, "routingtables.RoutingTable")

\* C17 as stated: when the "routingtable" value is no object, extraction fails
\* and the error carries the raw payload fragment and the reason.
C17_Original ==
    (ExtractionDone /\ RoutingTableNotAnObject) =>
        /\ rt.nil
        /\ xerr # Nil
        /\ Carries(xerr, DecodeReason)
        /\ \/ Carries(xerr, RawText(body.v.routingtable))
           \/ body.v.routingtable.k = "str" /\ Carries(xerr, body.v.routingtable.v)

\* C17: when the "routingtable" value of a response is an array, a number, a
\* string or a boolean, every extraction returns no record and the error
\* "failed to unmarshal routing table: " followed by the reason of the strict
\* decoder, which names the JSON kind found and the Go type expected; the
\* error carries no text of the payload.
C17_NotAnObjectFails ==
    (ExtractionDone /\ RoutingTableNotAnObject) =>
        /\ rt.nil
        /\ xerr = <<"failed to unmarshal routing table: ">> \o DecodeReason
        /\ ~Carries(xerr, RawText(body.v.routingtable))
        /\ body.v.routingtable.k = "str" => ~Carries(xerr, body.v.routingtable.v)

C17_Witness ==
    /\ op = "Extract"
    /\ rerr = Nil
    /\ body = JObj([routingtable |-> JNum(7, FALSE)])
    /\ rt.nil
    /\ xerr = <<"failed to unmarshal routing table: ", "json: cannot unmarshal", "num",
                "into Go value of type", "routingtables.RoutingTable">>

----------------------------------------------------------------------------
(* The request operations as a state machine: an operation is invoked,     *)
(* builds its request body where it has one, issues its HTTP call through  *)
(* the service client and returns its result.                              *)

\* the operations that build a request body from their options
BodyOperations ==
    {"Create", "Update", "AttachGateway", "CreateRoute", "UpdateRoute",
     "internetgateways.Create"}
\* the operations that hand &r.Body to the service client
ReadingOperations ==
    BodyOperations \cup {"Get", "DetachGateway", "SetAsDefault", "GetRelatedGateways",
                         "GetRoute", "internetgateways.Get"}
RequestOperations ==
    ReadingOperations \cup {"Delete", "DeleteRoute", "internetgateways.Delete"}

\* the error of the body builder for options that miss a required field
BuildError == <<"Missing input for argument">>
\* the bodies a service answers with
ResponseBodies ==
    {JObj([routingtable |-> JObj(WellFormedRoutingTable)]), JObj(EmptyObject), JArr(<<>>),
     JNull}

\* an operation is entered with its options; its result r is the zero value
Invoke ==
    /\ pc \in {"idle", "done"}
    /\ \E name \in RequestOperations, valid \in BOOLEAN :
          /\ name \notin BodyOperations => valid
          /\ req' = [name |-> name, optsValid |-> valid]
          /\ pc' = IF name \in BodyOperations THEN "build" ELSE "call"
    /\ calls' = 0
    /\ body' = NoJSON
    /\ rerr' = Nil
    /\ op' = "Invoke"
    /\ UNCHANGED <<rt, xerr>>
    /\ UNCHANGED refVars
    /\ UNCHANGED <<ctime, pageVars, routeVars, codeVars, accVars, gwVars>>

\* mutant: the error of the body builder is recorded and the call is issued anyway
BuildRequestBody_CallAnyway ==
    /\ pc = "build"
    /\ rerr' = IF req.optsValid THEN Nil ELSE BuildError
    /\ pc' = "call"
    /\ op' = "BuildRequestBody"
    /\ UNCHANGED <<req, calls, body, rt, xerr>>
    /\ UNCHANGED refVars
    /\ UNCHANGED <<ctime, pageVars, routeVars, codeVars, accVars, gwVars>>

\* b, err := opts.ToXMap(); if err != nil { r.Err = err; return }
BuildRequestBody ==
    /\ pc = "build"
    /\ IF req.optsValid
       THEN rerr' = Nil /\ pc' = "call"
       ELSE rerr' = BuildError /\ pc' = "done"
    /\ op' = "BuildRequestBody"
    /\ UNCHANGED <<req, calls, body, rt, xerr>>
    /\ UNCHANGED refVars
    /\ UNCHANGED <<ctime, pageVars, routeVars, codeVars, accVars, gwVars>>

\* resp, err := c.Get/Post/Put/Delete(...); _, r.Header, r.Err = ParseResponse(resp, err);
\* return: the call fills r.Body on success, its error becomes r.Err
HTTPCall ==
    /\ pc = "call"
    /\ calls' = calls + 1
    /\ \/ /\ rerr' = Nil
          /\ IF req.name \in ReadingOperations
             THEN body' \in ResponseBodies
             ELSE body' = body
       \/ /\ rerr' \in {TransportError, NotFoundError}
          /\ body' = body
    /\ pc' = "done"
    /\ op' = "HTTPCall"
    /\ UNCHANGED <<req, rt, xerr>>
    /\ UNCHANGED refVars
    /\ UNCHANGED <<ctime, pageVars, routeVars, codeVars, accVars, gwVars>>

NextRequest ==
    \/ Invoke
    \/ BuildRequestBody
    \/ HTTPCall

SpecRequest == Init /\ [][NextRequest]_vars

----------------------------------------------------------------------------
(* Claims about the request operations (SpecRequest) *)

\* the invocation has returned
Returned == pc = "done"
\* the options of the invocation do not build a request body
BuildFailed == req.name \in BodyOperations /\ ~req.optsValid

\* C18 as stated: every invocation of a request operation issues exactly one
\* HTTP call and then returns, whatever the outcome of the call or of building
\* the request body.
C18_Original == Returned => calls = 1

\* C18: no invocation of a request operation issues a second HTTP call; an
\* invocation whose request body cannot be built returns the error of the
\* builder without issuing any call, and every other invocation has issued
\* exactly one call when it returns, whatever the outcome of the call.
C18_OneCallUnlessBuildFails ==
    /\ calls \in {0, 1}
    /\ Returned =>
          IF BuildFailed
          THEN calls = 0 /\ rerr = BuildError /\ body = NoJSON
          ELSE calls = 1

C18_Witness ==
    /\ Returned
    /\ req = [name |-> "CreateRoute", optsValid |-> FALSE]
    /\ calls = 0
    /\ rerr = BuildError

----------------------------------------------------------------------------
(* Sequences of decodes into one receiver: a behaviour decodes into a      *)
(* FlexibleVPCInfo, a FlexibleSubnetInfo or an NHNCloudTime. The receivers *)
(* are separate values and no decode reads another receiver, so decodes    *)
(* into two of them are not interleaved.                                   *)

VPCOperations == {"init", "NewVPCInfo", "UnmarshalVPC"}
SubnetOperations == {"init", "NewSubnetInfo", "UnmarshalSubnet"}
TimeOperations == {"init", "NewTime", "UnmarshalTime"}

NextCodec ==
    \/ op \in VPCOperations /\ NewVPCInfo
    \/ op \in VPCOperations /\ UnmarshalVPC
    \/ op \in SubnetOperations /\ NewSubnetInfo
    \/ op \in SubnetOperations /\ UnmarshalSubnet
    \/ op \in TimeOperations /\ NewTime
    \/ op \in TimeOperations /\ UnmarshalTime

SpecCodec == Init /\ [][NextCodec]_vars

----------------------------------------------------------------------------
(* Claims about decodes into a used receiver (SpecCodec) *)

\* the string member key of the object o, or cur where o has no such string
StringMemberOr(o, key, cur) ==
    IF Has(o, key) /\ o[key].k = "str" THEN o[key].v ELSE cur
\* the reference a receiver holding prev holds after the payload j
RefAfter(prev, j) ==
    CASE j.k = "str" -> [ID |-> j.v, Name |-> EmptyString]
      [] j.k = "null" -> ZeroRef
      [] j.k = "obj" -> [ID |-> StringMemberOr(j.v, "id", prev.ID),
                         Name |-> StringMemberOr(j.v, "name", prev.Name)]
      [] OTHER -> prev
\* the payload alone decides the reference: a string, null, or an object
\* with a string "id" and a string "name"
RefPayloadDecides(j) ==
    \/ j.k \in {"str", "null"}
    \/ /\ j.k = "obj"
       /\ Has(j.v, "id") /\ j.v.id.k = "str"
       /\ Has(j.v, "name") /\ j.v.name.k = "str"
\* the payload alone decides the timestamp: a string some layout parses
TimePayloadDecides(j) == j.k = "str" /\ ParsingFormats(j.v) # {}

\* C19 as stated: after any sequence of decodes into one receiver, its value
\* equals the result of decoding the last payload into a fresh value.
C19_Original ==
    /\ op = "UnmarshalVPC" => fvi = FlexibleVPCInfo_UnmarshalJSON(ZeroRef, data).ref
    /\ op = "UnmarshalSubnet" => fsi = FlexibleSubnetInfo_UnmarshalJSON(ZeroRef, data).ref
    /\ op = "UnmarshalTime" => ctime = NHNCloudTime_UnmarshalJSON(ZeroTime, data).val

\* C19: after any sequence of decodes into one receiver, its value equals the
\* result of decoding the last payload into a fresh value when that payload is,
\* for a reference, a string, null or an object with a string "id" and a
\* string "name", and for a timestamp, a string some layout parses. Otherwise
\* the receiver keeps what it held: a reference keeps the field whose member
\* is absent, null or not a string, and all of it for a payload of another
\* kind; a timestamp keeps its value for null, "" and whatever no layout
\* parses.
C19_ReceiverKeptUnlessPayloadDecides ==
    /\ op = "UnmarshalVPC" =>
          /\ fvi = RefAfter(recv, data)
          /\ RefPayloadDecides(data) =>
                fvi = FlexibleVPCInfo_UnmarshalJSON(ZeroRef, data).ref
    /\ op = "UnmarshalSubnet" =>
          /\ fsi = RefAfter(recv, data)
          /\ RefPayloadDecides(data) =>
                fsi = FlexibleSubnetInfo_UnmarshalJSON(ZeroRef, data).ref
    /\ op = "UnmarshalTime" =>
          IF TimePayloadDecides(data)
          THEN /\ ctime = TimeOfString(data.v)
               /\ ctime = NHNCloudTime_UnmarshalJSON(ZeroTime, data).val
          ELSE ctime = recv

C19_Witness ==
    /\ op = "UnmarshalVPC"
    /\ recv = [ID |-> <<"id-1">>, Name |-> <<"alpha">>]
    /\ data = JObj([id |-> JStr(<<"id-2">>)])
    /\ fvi = [ID |-> <<"id-2">>, Name |-> <<"alpha">>]
    /\ fvi # FlexibleVPCInfo_UnmarshalJSON(ZeroRef, data).ref

----------------------------------------------------------------------------
(* ResponseCodeIs called with the errors a caller may hold *)

StatusCodes == {200, 404, 500}
ErrorLeaves == {OtherError} \cup {ErrUnexpectedResponseCode(c) : c \in {404, 500}}
RECURSIVE Errors(_)
\* the errors that wrap at most n levels, or join as many with a leaf on one side
Errors(n) ==
    IF n = 0 THEN ErrorLeaves
    ELSE Errors(n - 1)
         \cup {Wrapped(e) : e \in Errors(n - 1)}
         \cup {Joined(e1, e2) : e1 \in Errors(n - 1), e2 \in ErrorLeaves}
         \cup {Joined(e1, e2) : e1 \in ErrorLeaves, e2 \in Errors(n - 1)}

CallResponseCodeIs ==
    \E err \in Errors(MaxWrap) \cup {NilError}, code \in StatusCodes :
        /\ codeErr' = err
        /\ status' = code
        /\ codeIs' = ResponseCodeIs(err, code)
        /\ op' = "ResponseCodeIs"
        /\ UNCHANGED refVars
        /\ UNCHANGED rtVars
        /\ UNCHANGED <<ctime, pageVars, routeVars, reqVars, accVars, gwVars>>

NextCode == CallResponseCodeIs

SpecCode == Init /\ [][NextCode]_vars

----------------------------------------------------------------------------
(* Claims about ResponseCodeIs (SpecCode) *)

RECURSIVE CodesOf(_)
\* the Actual codes of the ErrUnexpectedResponseCode values err is or wraps,
\* in the order unwrapping meets them
CodesOf(err) ==
    CASE err.kind = "code" -> <<err.actual>>
      [] err.kind = "wrap" -> CodesOf(err.inner)
      [] err.kind = "join" -> CodesOf(err.errs[1]) \o CodesOf(err.errs[2])
      [] OTHER -> <<>>
\* err is or wraps an ErrUnexpectedResponseCode whose Actual code is code
WrapsCode(err, code) == \E i \in 1..Len(CodesOf(err)) : CodesOf(err)[i] = code

----------------------------------------------------------------------------
(* The accessor methods of a RoutingTable *)

\* ids := make([]string, len(refs)); for i, ref := range refs { ids[i] = ref.ID }
IDsOf(refs) == MakeSlice([i \in 1..Len(refs.e) |-> refs.e[i].ID])

RECURSIVE NamesLoop_KeepEmpty(_, _, _)
\* mutant: the name of every reference is appended, the empty ones too
NamesLoop_KeepEmpty(refs, i, names) ==
    IF i > Len(refs.e) THEN names
    ELSE NamesLoop_KeepEmpty(refs, i + 1, append(names, refs.e[i].Name))

RECURSIVE NamesLoop(_, _, _)
\* for _, ref := range refs { if ref.Name != "" { names = append(names, ref.Name) } }
NamesLoop(refs, i, names) ==
    IF i > Len(refs.e) THEN names
    ELSE NamesLoop(refs, i + 1,
                   IF refs.e[i].Name # EmptyString THEN append(names, refs.e[i].Name)
                   ELSE names)

\* names := make([]string, 0), then the loop
NamesOf(refs) == NamesLoop(refs, 1, MakeSlice(<<>>))

GetSubnetIDs(record) == IDsOf(record.Subnets)
GetSubnetNames(record) == NamesOf(record.Subnets)
GetVPCIDs(record) == IDsOf(record.VPCs)
GetVPCNames(record) == NamesOf(record.VPCs)

----------------------------------------------------------------------------
(* The accessors as a state machine: a record is extracted from a response *)
(* and its accessors are called on it.                                     *)

CallGetSubnetIDs ==
    /\ ~rt.nil
    /\ strings' = GetSubnetIDs(rt.val)
    /\ op' = "GetSubnetIDs"
    /\ UNCHANGED refVars
    /\ UNCHANGED rtVars
    /\ UNCHANGED <<ctime, pageVars, routeVars, reqVars, codeVars, gwVars>>

CallGetSubnetNames ==
    /\ ~rt.nil
    /\ strings' = GetSubnetNames(rt.val)
    /\ op' = "GetSubnetNames"
    /\ UNCHANGED refVars
    /\ UNCHANGED rtVars
    /\ UNCHANGED <<ctime, pageVars, routeVars, reqVars, codeVars, gwVars>>

CallGetVPCIDs ==
    /\ ~rt.nil
    /\ strings' = GetVPCIDs(rt.val)
    /\ op' = "GetVPCIDs"
    /\ UNCHANGED refVars
    /\ UNCHANGED rtVars
    /\ UNCHANGED <<ctime, pageVars, routeVars, reqVars, codeVars, gwVars>>

CallGetVPCNames ==
    /\ ~rt.nil
    /\ strings' = GetVPCNames(rt.val)
    /\ op' = "GetVPCNames"
    /\ UNCHANGED refVars
    /\ UNCHANGED rtVars
    /\ UNCHANGED <<ctime, pageVars, routeVars, reqVars, codeVars, gwVars>>

NextAccess ==
    \/ CallExtract
    \/ CallGetSubnetIDs
    \/ CallGetSubnetNames
    \/ CallGetVPCIDs
    \/ CallGetVPCNames

SpecAccess == InitExtract /\ [][NextAccess]_vars

----------------------------------------------------------------------------
(* Claims about the accessors (SpecAccess) *)

\* the list of references the accessor named by the operation reads
RefsRead(operation, record) ==
    IF operation \in {"GetVPCIDs", "GetVPCNames"} THEN record.VPCs.e ELSE record.Subnets.e
NonEmptyString(str) == str # EmptyString

\* C21: an accessor of a routing table leaves the record unchanged;
\* GetVPCIDs/GetSubnetIDs return one id per reference in the order of the list
\* (as long as the list, empty ids included), and GetVPCNames/GetSubnetNames
\* return, in order, only the non-empty names, as a non-nil list that is empty
\* when the references hold ids only.
C21_AccessorsProject ==
    [][/\ op' \in {"GetVPCIDs", "GetSubnetIDs"} =>
            /\ rt' = rt
            /\ ~strings'.nil
            /\ Len(strings'.e) = Len(RefsRead(op', rt.val))
            /\ \A i \in 1..Len(strings'.e) : strings'.e[i] = RefsRead(op', rt.val)[i].ID
       /\ op' \in {"GetVPCNames", "GetSubnetNames"} =>
            /\ rt' = rt
            /\ ~strings'.nil
            /\ strings'.e = SelectSeq([i \in 1..Len(RefsRead(op', rt.val)) |->
                                          RefsRead(op', rt.val)[i].Name], NonEmptyString)
            /\ (\A i \in 1..Len(RefsRead(op', rt.val)) :
                    RefsRead(op', rt.val)[i].Name = EmptyString) => strings'.e = <<>>]_vars

C21_Witness ==
    /\ op = "GetVPCNames"
    /\ ~rt.nil
    /\ Len(rt.val.VPCs.e) = 2
    /\ rt.val.VPCs.e[1].Name = EmptyString
    /\ strings = MakeSlice(<<rt.val.VPCs.e[2].Name>>)

----------------------------------------------------------------------------
(* Claims about the two extraction methods of one result (SpecExtract) *)

\* two outcomes agree: the same record, or an error on both sides
Agree(r1, r2) ==
    \/ r1.err # Nil /\ r2.err # Nil
    \/ r1.err = Nil /\ r2.err = Nil /\ r1.val = r2.val
\* the response holds a "routingtable" member that is not null
HoldsRoutingTable ==
    body.k = "obj" /\ Has(body.v, "routingtable") /\ body.v.routingtable.k # "null"

\* C22 as stated: for any body with no transport error, Extract and
\* ExtractRoutingTable return the same record or both return an error, also
\* when the "routingtable" key is absent or its value is null.
C22_Original ==
    /\ (op = "Extract" /\ rerr = Nil) =>
          Agree([val |-> rt, err |-> xerr], ExtractRoutingTable(body, rerr))
    /\ (op = "ExtractRoutingTable" /\ rerr = Nil) =>
          Agree(Extract(body, rerr), [val |-> rt, err |-> xerr])

\* the two methods agree on the responses that hold a "routingtable" member
\* that is not null, and on the bodies that are neither an object nor null
C22_AgreeOnPresentRecord ==
    (op \in {"Extract", "ExtractRoutingTable"} /\ rerr = Nil
        /\ (HoldsRoutingTable \/ body.k \notin {"obj", "null"})) =>
        /\ Agree([val |-> rt, err |-> xerr], ExtractRoutingTable(body, rerr))
        /\ Agree(Extract(body, rerr), [val |-> rt, err |-> xerr])

\* on the other responses Extract returns no record and no error
C22_ExtractReturnsNothing ==
    (op = "Extract" /\ rerr = Nil /\ body.k \in {"obj", "null"} /\ ~HoldsRoutingTable) =>
        rt.nil /\ xerr = Nil

----------------------------------------------------------------------------
(* Internet gateways *)

\* the layout InternetGateway.UnmarshalJSON hands to time.Parse
GatewayLayout == [name |-> "2006-01-02 15:04:05", sep |-> " ", frac |-> FALSE, zone |-> "none"]

\* json.Unmarshal(b, &s) into the struct {tmp; CreateTime string `json:"create_time"`}:
\* s is fresh, and the CreateTime of tmp is tagged "-"
UnmarshalGatewayAux(j) ==
    IF j.k = "obj" THEN
        LET o == j.v
            id == Member(UnmarshalString, EmptyString, o, "id")
            name == Member(UnmarshalString, EmptyString, o, "name")
            externalNetworkID == Member(UnmarshalString, EmptyString, o, "external_network_id")
            routingTableID == Member(UnmarshalStringPtr, NilString, o, "routingtable_id")
            state == Member(UnmarshalString, EmptyString, o, "state")
            tenantID == Member(UnmarshalString, EmptyString, o, "tenant_id")
            migrateStatus == Member(UnmarshalString, EmptyString, o, "migrate_status")
            migrateError == Member(UnmarshalStringPtr, NilString, o, "migrate_error")
            createTime == Member(UnmarshalString, EmptyString, o, "create_time")
        IN [tmp |-> [ID |-> id.val, Name |-> name.val,
                     ExternalNetworkID |-> externalNetworkID.val,
                     RoutingTableID |-> routingTableID.val, State |-> state.val,
                     CreateTime |-> ZeroTime, TenantID |-> tenantID.val,
                     MigrateStatus |-> migrateStatus.val, MigrateError |-> migrateError.val],
            CreateTime |-> createTime.val,
            err |-> FirstError(<<id, name, externalNetworkID, routingTableID, state,
                                 tenantID, migrateStatus, migrateError, createTime>>)]
    ELSE [tmp |-> ZeroInternetGateway, CreateTime |-> EmptyString,
          err |-> IF j.k = "null" THEN Nil ELSE UnmarshalTypeError(j.k, "struct")]

\* mutant: a create_time that does not parse is left at the zero time without error
InternetGateway_UnmarshalJSON_IgnoreParseError(cur, j) ==
    LET AfterUnmarshal(s) ==
            IF s.err # Nil THEN [val |-> cur, err |-> s.err]
            ELSE IF s.CreateTime # EmptyString
            THEN LET Parsed(p) ==
                         IF p.err # Nil THEN [val |-> s.tmp, err |-> Nil]
                         ELSE [val |-> [s.tmp EXCEPT !.CreateTime = p.t], err |-> Nil]
                 IN Parsed(time_Parse(GatewayLayout, s.CreateTime))
            ELSE [val |-> s.tmp, err |-> Nil]
    IN AfterUnmarshal(UnmarshalGatewayAux(j))

\* InternetGateway.UnmarshalJSON: *r = InternetGateway(s.tmp) once the members
\* are decoded, then the create_time string is parsed when it is not empty
InternetGateway_UnmarshalJSON(cur, j) ==
    LET AfterUnmarshal(s) ==
            IF s.err # Nil THEN [val |-> cur, err |-> s.err]
            ELSE IF s.CreateTime # EmptyString
            THEN LET Parsed(p) ==
                         IF p.err # Nil THEN [val |-> s.tmp, err |-> p.err]
                         ELSE [val |-> [s.tmp EXCEPT !.CreateTime = p.t], err |-> Nil]
                 IN Parsed(time_Parse(GatewayLayout, s.CreateTime))
            ELSE [val |-> s.tmp, err |-> Nil]
    IN AfterUnmarshal(UnmarshalGatewayAux(j))

RECURSIVE UnmarshalInternetGatewaysLoop(_, _, _)
\* the elements of the array are decoded in turn; the error of an UnmarshalJSON
\* ends the decode, the slice holding the elements reached so far
UnmarshalInternetGatewaysLoop(elems, i, acc) ==
    IF i > Len(elems) THEN [val |-> MakeSlice(acc), err |-> Nil]
    ELSE LET Stored(r) ==
                 IF r.err # Nil THEN [val |-> MakeSlice(Append(acc, r.val)), err |-> r.err]
                 ELSE UnmarshalInternetGatewaysLoop(elems, i + 1, Append(acc, r.val))
         IN Stored(InternetGateway_UnmarshalJSON(ZeroInternetGateway, elems[i]))

\* json.Unmarshal into a []InternetGateway
UnmarshalInternetGateways(cur, j) ==
    IF j.k = "arr" THEN UnmarshalInternetGatewaysLoop(j.v, 1, <<>>)
    ELSE IF j.k = "null" THEN [val |-> NilSlice, err |-> Nil]
    ELSE [val |-> cur, err |-> UnmarshalTypeError(j.k, "[]internetgateways.InternetGateway")]

\* ExtractInternetGateways: r.ExtractInto(&s) with s.InternetGateways []InternetGateway
ExtractInternetGateways(b) ==
    IF b.k = "obj" THEN
        IF Has(b.v, "internetgateways")
        THEN UnmarshalInternetGateways(NilSlice, b.v.internetgateways)
        ELSE [val |-> NilSlice, err |-> Nil]
    ELSE IF b.k = "null" THEN [val |-> NilSlice, err |-> Nil]
    ELSE [val |-> NilSlice, err |-> UnmarshalTypeError(b.k, "struct")]

----------------------------------------------------------------------------
(* The gateway decode as a state machine: a behaviour decodes payloads     *)
(* into one InternetGateway, or extracts the gateways of list pages.       *)

WellFormedGateway ==
    [id |-> JStr(<<"igw-1">>), name |-> JStr(<<"igw">>),
     external_network_id |-> JStr(<<"ext-1">>), routingtable_id |-> JNull,
     state |-> JStr(<<"available">>),
     create_time |-> JStr(<<"2024-02-13", " ", "10:45:57">>),
     tenant_id |-> JStr(<<"t1">>), migrate_status |-> JStr(<<"none">>),
     migrate_error |-> JNull]

\* what the create_time member of a gateway may hold
GatewayCreateTimes ==
    {JStr(str) : str \in TimeStrings}
    \cup {JNull, JStr(EmptyString), JStr(<<"yesterday">>), JStr(<<"2024-02-13">>),
          JNum(7, FALSE)}

GatewayPayloads ==
    {JObj(With(WellFormedGateway, "create_time", c)) : c \in GatewayCreateTimes}
    \cup {JObj(Drop(WellFormedGateway, "create_time")),
          JObj(With(WellFormedGateway, "routingtable_id", JStr(<<"rt-1">>))),
          JObj(With(WellFormedGateway, "id", JNum(7, FALSE))),
          JObj(EmptyObject), JNull, JNum(7, FALSE)}

\* the gateways of a list page
PageGateways ==
    {JObj(WellFormedGateway),
     JObj(Drop(WellFormedGateway, "create_time")),
     JObj(With(WellFormedGateway, "create_time", JStr(<<"2024-02-13", " ", "10:45:57", ".5">>))),
     JObj(With(WellFormedGateway, "create_time", JStr(<<"2024-02-13", "T", "10:45:57", "Z">>)))}

GatewayPageBodies ==
    {JObj([internetgateways |-> JArr(a)]) : a \in SeqsUpTo(PageGateways, MaxListLen)}
    \cup {JObj(EmptyObject), JObj([internetgateways |-> JNull]),
          JObj([internetgateways |-> JStr(<<"igw-1">>)]), JNull}

\* var gw InternetGateway
NewGateway ==
    /\ gw' = ZeroInternetGateway
    /\ op' = "NewGateway"
    /\ UNCHANGED gws
    /\ UNCHANGED refVars
    /\ UNCHANGED rtVars
    /\ UNCHANGED <<ctime, pageVars, routeVars, reqVars, codeVars, accVars>>

UnmarshalGateway ==
    \E j \in GatewayPayloads :
        \E r \in {InternetGateway_UnmarshalJSON(gw, j)} :
            /\ gw' = r.val
            /\ derr' = r.err
            /\ data' = j
            /\ recv' = gw
            /\ out' = NoJSON
            /\ op' = "UnmarshalGateway"
            /\ UNCHANGED gws
            /\ UNCHANGED <<fvi, fsi>>
            /\ UNCHANGED rtVars
            /\ UNCHANGED <<ctime, pageVars, routeVars, reqVars, codeVars, accVars>>

\* a list page arrives and its gateways are extracted
CallExtractInternetGateways ==
    \E b \in GatewayPageBodies :
        \E r \in {ExtractInternetGateways(b)} :
            /\ body' = b
            /\ gws' = r.val
            /\ xerr' = r.err
            /\ op' = "ExtractInternetGateways"
            /\ UNCHANGED gw
            /\ UNCHANGED <<rerr, rt>>
            /\ UNCHANGED refVars
            /\ UNCHANGED <<ctime, pageVars, routeVars, reqVars, codeVars, accVars>>

GatewayOperations == {"init", "NewGateway", "UnmarshalGateway"}

NextGateway ==
    \/ op \in GatewayOperations /\ NewGateway
    \/ op \in GatewayOperations /\ UnmarshalGateway
    \/ op \in {"init", "ExtractInternetGateways"} /\ CallExtractInternetGateways

SpecGateway == Init /\ [][NextGateway]_vars

----------------------------------------------------------------------------
(* Claims about the create_time of an internet gateway (SpecGateway) *)

\* a gateway object whose members other than create_time have their types
GatewayObject(j) ==
    /\ j.k = "obj"
    /\ \A key \in DOMAIN j.v \ {"create_time"} : j.v[key].k \in {"str", "null"}
\* create_time is absent, null or the empty string
CreateTimeUnset(j) ==
    \/ ~Has(j.v, "create_time")
    \/ j.v.create_time.k = "null"
    \/ j.v.create_time = JStr(EmptyString)
\* create_time is a non-empty string
CreateTimeString(j) ==
    /\ Has(j.v, "create_time")
    /\ j.v.create_time.k = "str"
    /\ j.v.create_time.v # EmptyString
\* the string is 'YYYY-MM-DD HH:MM:SS'
PlainFormat(str) ==
    Len(str) = 3 /\ str[1] \in DateTokens /\ str[2] = " " /\ str[3] \in ClockTokens
\* the string is 'YYYY-MM-DD HH:MM:SS' followed by a fraction of a second
FractionFormat(str) ==
    Len(str) = 4 /\ PlainFormat(SubSeq(str, 1, 3)) /\ str[4] \in FracTokens
\* the instant such a string denotes, in UTC
InstantOfPlain(str, nsec) ==
    [day |-> DayOf(str[1]), sec |-> SecondOf(str[3]), nsec |-> nsec, off |-> 0]
\* the page lists gateway objects
ListsGateways ==
    /\ op = "ExtractInternetGateways"
    /\ body.k = "obj"
    /\ Has(body.v, "internetgateways")
    /\ body.v.internetgateways.k = "arr"
    /\ \A i \in 1..Len(body.v.internetgateways.v) : GatewayObject(body.v.internetgateways.v[i])
GatewayDecoded == op = "UnmarshalGateway" /\ GatewayObject(data)

====
